---- MODULE Spec2Model ----
(***************************************************************************)
(* A model of the market-data ingestion engine (fkonrad97/pop):            *)
(*   - md::NOrderBook           fixed-depth sorted bid/ask vectors         *)
(*   - md::OrderBookController  snapshot / incremental reconciliation      *)
(*   - md::GenericFeedHandler   the sync state machine                     *)
(*   - md::WsClient             the WebSocket client's close discipline    *)
(* Every operator keeps the name of the function it is translated from.    *)
(***************************************************************************)
EXTENDS Integers, Sequences, FiniteSets, TLC

VARIABLES
    book,     \* NOrderBook: [depth, bids, asks]
    ctrl,     \* OrderBookController: [state, last_seq, expected_seq]
    caps,     \* VenueCaps resolved at init (checksum_fn, sync_mode, ...)
    ev,       \* history: the last operation, its input and what it returned
    cover,    \* history: the lineage's snapshot id and how often each sequence
              \* number was covered by an applied incremental
    hnd,      \* GenericFeedHandler: running_, state_, buffer_, reconnect fields
    ws,       \* WsClient: flags, write queue and the asynchronous operations
              \* that are outstanding
    rest,     \* RestClient as the handler sees it: the request in flight; in
              \* SpecRest the client in full (fields, operations, deadlines)
    timer     \* reconnect_timer_: the armed wait and the expired waits whose
              \* handlers are queued

vars == <<book, ctrl, caps, ev, cover, hnd, ws, rest, timer>>

io == <<hnd, ws, rest, timer>>

(***************************************************************************)
(* Bounds of the model                                                     *)
(***************************************************************************)
MaxDepth == 2
MaxPrice == 3
MaxQty == 2
\* max_buffer_ of the feed handler
MaxBuffer == 1

Sides == {"BID", "ASK"}
Prices == 1..MaxPrice
Quantities == 0..MaxQty

(***************************************************************************)
(* md::NOrderBook                                                          *)
(***************************************************************************)
Level(p, q) == [priceTick |-> p, quantityLot |-> q]

isEmpty(level) == level.quantityLot = 0

NOrderBook(d) == [depth |-> d, bids |-> <<>>, asks |-> <<>>]

\* the comparator lambdas handed to std::lower_bound: descending for bids,
\* ascending for asks
comp(S, obTick, tick) == IF S = "BID" THEN obTick > tick ELSE obTick < tick

\* std::lower_bound as the library computes it: a binary search over
\* [first, first + count) for the first position where comp is false
RECURSIVE lower_bound(_, _, _, _, _)
lower_bound(vec, S, tick, first, count) ==
    IF count <= 0 THEN first
    ELSE LET step == count \div 2
             it == first + step
         IN IF comp(S, vec[it].priceTick, tick)
            THEN lower_bound(vec, S, tick, it + 1, count - (step + 1))
            ELSE lower_bound(vec, S, tick, first, step)

sideOf(bk, S) == IF S = "BID" THEN bk.bids ELSE bk.asks

withSide(bk, S, vec) ==
    IF S = "BID" THEN [bk EXCEPT !.bids = vec] ELSE [bk EXCEPT !.asks = vec]

\* insert that appends the level instead of placing it at the position found
insert_end(vec, it, level) == vec \o <<level>>

insert(vec, it, level) ==
    SubSeq(vec, 1, it - 1) \o <<level>> \o SubSeq(vec, it, Len(vec))

erase(vec, it) == SubSeq(vec, 1, it - 1) \o SubSeq(vec, it + 1, Len(vec))

\* pop_back taking the first element instead of the last
pop_back_front(vec) == SubSeq(vec, 2, Len(vec))

pop_back(vec) == SubSeq(vec, 1, Len(vec) - 1)

remove(bk, S, priceTick) ==
    LET vec == sideOf(bk, S)
        it == lower_bound(vec, S, priceTick, 1, Len(vec))
    IN IF it <= Len(vec) /\ vec[it].priceTick = priceTick
       THEN withSide(bk, S, erase(vec, it))
       ELSE bk

\* Option C of update kept without the pop_back: the side outgrows the depth
update_nopop(bk, S, level) ==
    IF isEmpty(level) THEN remove(bk, S, level.priceTick)
    ELSE LET vec == sideOf(bk, S)
             it == lower_bound(vec, S, level.priceTick, 1, Len(vec))
         IN IF it <= Len(vec) /\ vec[it].priceTick = level.priceTick
            THEN withSide(bk, S, [vec EXCEPT ![it].quantityLot = level.quantityLot])
            ELSE IF Len(vec) < bk.depth \/ it <= Len(vec)
                 THEN withSide(bk, S, insert(vec, it, level))
                 ELSE bk

update(bk, S, level) ==
    IF isEmpty(level) THEN remove(bk, S, level.priceTick)
    ELSE LET vec == sideOf(bk, S)
             it == lower_bound(vec, S, level.priceTick, 1, Len(vec))
         IN \* Option A: the level is in the book, its quantity is overwritten
            IF it <= Len(vec) /\ vec[it].priceTick = level.priceTick
            THEN withSide(bk, S, [vec EXCEPT ![it].quantityLot = level.quantityLot])
            \* Option B: room left, insert anywhere (including the end)
            ELSE IF Len(vec) < bk.depth
                 THEN withSide(bk, S, insert(vec, it, level))
                 \* Option C: insert only if not at the end, then drop the last
                 ELSE IF it <= Len(vec)
                      THEN withSide(bk, S, pop_back(insert(vec, it, level)))
                      ELSE bk

validate(bk) ==
    /\ Len(bk.bids) <= bk.depth
    /\ Len(bk.asks) <= bk.depth
    /\ \A i \in 2..Len(bk.bids) : ~(bk.bids[i - 1].priceTick <= bk.bids[i].priceTick)
    /\ \A i \in 2..Len(bk.asks) : ~(bk.asks[i - 1].priceTick >= bk.asks[i].priceTick)
    /\ \A i \in 1..Len(bk.bids) : ~isEmpty(bk.bids[i])
    /\ \A i \in 1..Len(bk.asks) : ~isEmpty(bk.asks[i])

(***************************************************************************)
(* md::checkBitgetCRC32 (utils/CheckSumUtils.hpp).  The price and quantity *)
(* strings of a level are represented by its ticks and lots, the ':'       *)
(* separator by Colon, and boost::crc_32_type by a polynomial hash of      *)
(* CrcBits bits.                                                           *)
(***************************************************************************)
CrcBits == 3
ChecksumTopN == 25
MaxSeq == 4

Colon == -1

RECURSIVE Pow2(_)
Pow2(n) == IF n = 0 THEN 1 ELSE 2 * Pow2(n - 1)

RECURSIVE CRC32Checksum(_)
CRC32Checksum(s) ==
    IF s = <<>> THEN 0
    ELSE (5 * CRC32Checksum(SubSeq(s, 1, Len(s) - 1)) + s[Len(s)] + 2) % Pow2(CrcBits)

\* static_cast<std::int32_t>(u): the same bit pattern read as a signed value
CRC32ToSigned(u) == IF u >= Pow2(CrcBits - 1) THEN u - Pow2(CrcBits) ELSE u

append(s, tok) == IF s = <<>> THEN <<tok>> ELSE s \o <<Colon, tok>>

RECURSIVE checksumString(_, _, _, _)
checksumString(bk, i, topN, s) ==
    IF i >= topN \/ (i >= Len(bk.bids) /\ i >= Len(bk.asks)) THEN s
    ELSE LET sb == IF i < Len(bk.bids)
                   THEN append(append(s, bk.bids[i + 1].priceTick),
                               bk.bids[i + 1].quantityLot)
                   ELSE s
             sa == IF i < Len(bk.asks)
                   THEN append(append(sb, bk.asks[i + 1].priceTick),
                               bk.asks[i + 1].quantityLot)
                   ELSE sb
         IN checksumString(bk, i + 1, topN, sa)

localChecksum(bk, topN) == CRC32ToSigned(CRC32Checksum(checksumString(bk, 0, topN, <<>>)))

checkBitgetCRC32(bk, expected, topN) == localChecksum(bk, topN) = expected

(***************************************************************************)
(* md::OrderBookController                                                 *)
(***************************************************************************)
clear(bk) == [bk EXCEPT !.bids = <<>>, !.asks = <<>>]

\* validation that accepts whatever checksum the venue sent
validateChecksum_accept(fn, bk, expected) == TRUE

validateChecksum(fn, bk, expected) ==
    IF fn = "nullptr" THEN TRUE ELSE checkBitgetCRC32(bk, expected, ChecksumTopN)

\* what a controller call hands back: the controller, its book, the Action
\* returned and the return statement that produced it
Outcome(c, bk, action, branch) ==
    [ctrl |-> c, book |-> bk, action |-> action, branch |-> branch]

resetBook(bk) == [ctrl |-> [state |-> "WaitingSnapshot", last_seq |-> 0, expected_seq |-> 0],
                  book |-> clear(bk)]

RECURSIVE applyLevels(_, _, _)
applyLevels(bk, S, levels) ==
    IF levels = <<>> THEN bk
    ELSE applyLevels(update(bk, S, Head(levels)), S, Tail(levels))

\* applyIncrementUpdate without the ask side
applyIncrementUpdate_bidsOnly(bk, upd) == applyLevels(bk, "BID", upd.bids)

applyIncrementUpdate(bk, upd) == applyLevels(applyLevels(bk, "BID", upd.bids), "ASK", upd.asks)

\* std::sort with the controller's comparators: any arrangement of the
\* levels in which no level precedes a strictly better one (the order of
\* levels at equal price is not specified by std::sort)
IsSorted(vec, S) ==
    \A i, j \in 1..Len(vec) : i < j => ~comp(S, vec[j].priceTick, vec[i].priceTick)

arrangements(vec) ==
    {[i \in 1..Len(vec) |-> vec[f[i]]] :
        f \in {g \in [1..Len(vec) -> 1..Len(vec)] :
                  \A a, b \in 1..Len(vec) : a # b => g[a] # g[b]}}

sort(vec, S) == {w \in arrangements(vec) : IsSorted(w, S)}

\* the snapshot applied on top of the book as it is, without clearing it
snapshotBook_noClear(bk, bids, asks) ==
    applyLevels(applyLevels(bk, "BID", bids), "ASK", asks)

\* the snapshot applied to the cleared book, before the checksum is looked at
snapshotBook(bk, bids, asks) ==
    applyLevels(applyLevels(clear(bk), "BID", bids), "ASK", asks)

\* bids, asks: msg.bids and msg.asks as std::sort left them
onSnapshot(fn, bk, msg, kind, bids, asks) ==
    LET loaded == snapshotBook(bk, bids, asks)
        r == resetBook(loaded)
    IN IF fn # "nullptr" /\ msg.checksum = 0
       THEN Outcome(r.ctrl, r.book, "NeedResync", "checksum_missing")
       ELSE IF fn # "nullptr" /\ ~validateChecksum(fn, loaded, msg.checksum)
       THEN Outcome(r.ctrl, r.book, "NeedResync", "checksum_mismatch")
       ELSE Outcome([state |-> IF kind = "WsAuthoritative" THEN "Synced" ELSE "WaitingBridge",
                     last_seq |-> msg.lastUpdateId,
                     expected_seq |-> msg.lastUpdateId + 1],
                    loaded, "None", "applied")

\* the check that follows an application, in the bridging and in the
\* steady-state phase alike
checksumGate(fn, c, bk, msg) ==
    LET r == resetBook(bk)
    IN IF fn # "nullptr" /\ msg.checksum = 0
       THEN Outcome(r.ctrl, r.book, "NeedResync", "checksum_missing")
       ELSE IF fn # "nullptr" /\ ~validateChecksum(fn, bk, msg.checksum)
       THEN Outcome(r.ctrl, r.book, "NeedResync", "checksum_mismatch")
       ELSE Outcome(c, bk, "None", "applied")

\* the comparison one short: a message ending at required - 1 is let through
isTooOld_lax(msg, required) == msg.last_seq + 1 < required

\* msg.last_seq < required: pre-baseline overlap, the message is ignored
isTooOld(msg, required) == msg.last_seq < required

\* allow_seq_gap honoured: a message that starts beyond required is let through
isGap_never(msg, required) == FALSE

\* the gap test one too far: first_seq = required + 1 is let through
isGap_offByOne(msg, required) == msg.first_seq > required + 1

\* msg.first_seq > required: a gap
isGap(msg, required) == msg.first_seq > required

\* expected_seq_ left one short of last_seq_ + 1
seqAfterApply_short(c, msg) ==
    [c EXCEPT !.last_seq = msg.last_seq, !.expected_seq = msg.last_seq]

\* last_seq_ = msg.last_seq; expected_seq_ = last_seq_ + 1
seqAfterApply(c, msg) ==
    [c EXCEPT !.last_seq = msg.last_seq, !.expected_seq = msg.last_seq + 1]

\* onIncrement without the test for WaitingSnapshot
onIncrement_deaf(fn, c, bk, msg) ==
    LET has_seq == msg.last_seq # 0
        required == c.expected_seq
    IN IF ~has_seq /\ fn = "nullptr" THEN Outcome(c, bk, "NeedResync", "untrusted")
       ELSE IF c.state = "WaitingBridge"
       THEN \* ---- Bridging phase (RestAnchored) ----
            IF has_seq /\ isTooOld(msg, required) THEN Outcome(c, bk, "None", "ignored")
            ELSE IF has_seq /\ isGap(msg, required)
                 THEN Outcome(c, bk, "NeedResync", "gap")
            ELSE checksumGate(fn,
                     [(IF has_seq THEN seqAfterApply(c, msg) ELSE c)
                         EXCEPT !.state = "Synced"],
                     applyIncrementUpdate(bk, msg), msg)
       ELSE \* ---- Steady-state (Synced) ----
            IF has_seq /\ isTooOld(msg, required) THEN Outcome(c, bk, "None", "ignored")
            ELSE IF has_seq /\ isGap(msg, required)
                 THEN Outcome(c, bk, "NeedResync", "gap")
            ELSE checksumGate(fn,
                     IF has_seq THEN seqAfterApply(c, msg) ELSE c,
                     applyIncrementUpdate(bk, msg), msg)

onIncrement(fn, c, bk, msg) ==
    LET has_seq == msg.last_seq # 0
        required == c.expected_seq
    IN IF c.state = "WaitingSnapshot" THEN Outcome(c, bk, "None", "buffering")
       ELSE IF ~has_seq /\ fn = "nullptr" THEN Outcome(c, bk, "NeedResync", "untrusted")
       ELSE IF c.state = "WaitingBridge"
       THEN \* ---- Bridging phase (RestAnchored) ----
            IF has_seq /\ isTooOld(msg, required) THEN Outcome(c, bk, "None", "ignored")
            ELSE IF has_seq /\ isGap(msg, required)
                 THEN Outcome(c, bk, "NeedResync", "gap")
            ELSE checksumGate(fn,
                     [(IF has_seq THEN seqAfterApply(c, msg) ELSE c)
                         EXCEPT !.state = "Synced"],
                     applyIncrementUpdate(bk, msg), msg)
       ELSE \* ---- Steady-state (Synced) ----
            IF has_seq /\ isTooOld(msg, required) THEN Outcome(c, bk, "None", "ignored")
            ELSE IF has_seq /\ isGap(msg, required)
                 THEN Outcome(c, bk, "NeedResync", "gap")
            ELSE checksumGate(fn,
                     IF has_seq THEN seqAfterApply(c, msg) ELSE c,
                     applyIncrementUpdate(bk, msg), msg)

(***************************************************************************)
(* Initial values shared by every specification                            *)
(***************************************************************************)
NoEvent == [op |-> "none", action |-> "None", branch |-> "none", kind |-> "none",
            rel |-> "none", from |-> "none", last |-> 0, checksum |-> "none",
            wasEmpty |-> TRUE]

CtrlInit == [state |-> "WaitingSnapshot", last_seq |-> 0, expected_seq |-> 0]

NoCover == [base |-> 0, cnt |-> [s \in 1..MaxSeq |-> 0]]

NoCaps == [sync_mode |-> "RestAnchored", ws_sends_snapshot |-> FALSE,
           checksum_fn |-> "nullptr", requires_ws_bootstrap |-> FALSE,
           allow_seq_gap |-> FALSE,
           has_checksum |-> FALSE]

\* GenericFeedHandler.hpp: member initialisers, and init()
HndInit == [running_ |-> FALSE, state_ |-> "DISCONNECTED", buffer_ |-> <<>>,
            reconnect_scheduled_ |-> FALSE,
            closing_for_restart_ |-> FALSE,
            wsSubscribeFrame |-> "", ws_ping_interval_ms |-> 0,
            controller_ |-> TRUE, rt_ws |-> "adapter",
            max_buffer_ |-> MaxBuffer]

\* WsClient after construction: nothing outstanding, no handler installed
\* (sends: the send_text calls made so far, which number the texts; base: the
\* value of sends at the last connect(); wire: the texts whose async_write
\* completed without an error since the last connect())
WsInit == [closing_ |-> FALSE, opened_ |-> FALSE, close_notified_ |-> FALSE,
           write_in_flight_ |-> FALSE, outbox_ |-> <<>>, ping_interval_ |-> 0,
           sends |-> 0, base |-> 0, wire |-> <<>>, host_ |-> "",
           handlers |-> "none",
           resolve |-> "none", conn |-> "none", read |-> "none",
           write |-> "none", closeOp |-> "none", ping |-> "none",
           sock |-> "closed", deadline |-> FALSE, stale |-> {},
           closes |-> 0]

RestInit == [in_flight_ |-> FALSE, cb |-> "none", aborted |-> FALSE]

NoWait == [kind |-> "none", my_gen |-> "none"]

TimerInit == [wait |-> NoWait, ready |-> {}]

IdleIO == hnd = HndInit /\ ws = WsInit /\ rest = RestInit /\ timer = TimerInit

(***************************************************************************)
(* SpecBook: an order book that starts empty, under update and remove      *)
(***************************************************************************)
InitBook ==
    /\ \E d \in 1..MaxDepth : book = NOrderBook(d)
    /\ ctrl = CtrlInit
    /\ caps = NoCaps
    /\ ev = NoEvent
    /\ cover = NoCover
    /\ IdleIO

BookUpdate ==
    \E S \in Sides, p \in Prices, q \in Quantities :
        /\ book' = update(book, S, Level(p, q))
        /\ ev' = [op |-> "update", side |-> S, level |-> Level(p, q),
                  before |-> sideOf(book, S)]
        /\ UNCHANGED <<ctrl, caps, cover, io>>

BookRemove ==
    \E S \in Sides, p \in Prices :
        /\ book' = remove(book, S, p)
        /\ ev' = [op |-> "remove", side |-> S, level |-> Level(p, 0),
                  before |-> sideOf(book, S)]
        /\ UNCHANGED <<ctrl, caps, cover, io>>

\* update(side, (p, q)) followed by update(side, (p, 0)), q > 0
BookUpdateThenDelete ==
    \E S \in Sides, p \in Prices, q \in Quantities \ {0} :
        /\ book' = update(update(book, S, Level(p, q)), S, Level(p, 0))
        /\ ev' = [op |-> "update_delete", side |-> S, level |-> Level(p, q),
                  before |-> sideOf(book, S),
                  other |-> sideOf(book, IF S = "BID" THEN "ASK" ELSE "BID")]
        /\ UNCHANGED <<ctrl, caps, cover, io>>

NextBook == BookUpdate \/ BookRemove \/ BookUpdateThenDelete

SpecBook == InitBook /\ [][NextBook]_vars

(***************************************************************************)
(* C1: after any finite sequence of update and remove calls on a book of   *)
(* depth D >= 1 that starts empty, each side is strictly ordered by price  *)
(* (bids descending, asks ascending) with no duplicate price, holds at     *)
(* most D levels, and retains no level whose quantity is 0.                *)
(***************************************************************************)
C1_BookInvariant ==
    /\ book.depth >= 1
    /\ Len(book.bids) <= book.depth
    /\ Len(book.asks) <= book.depth
    /\ \A i, j \in 1..Len(book.bids) :
           i < j => book.bids[i].priceTick > book.bids[j].priceTick
    /\ \A i, j \in 1..Len(book.asks) :
           i < j => book.asks[i].priceTick < book.asks[j].priceTick
    /\ \A i \in 1..Len(book.bids) : book.bids[i].quantityLot # 0
    /\ \A i \in 1..Len(book.asks) : book.asks[i].quantityLot # 0

\* a full side of depth >= 2 took an update at a new, better price: the
\* insert-then-pop path ran
C1_Witness ==
    /\ ev.op = "update"
    /\ book.depth >= 2
    /\ Len(ev.before) = book.depth
    /\ ev.level.quantityLot # 0
    /\ \A i \in 1..Len(ev.before) : ev.before[i].priceTick # ev.level.priceTick
    /\ sideOf(book, ev.side) # ev.before
    /\ Len(book.bids) = book.depth
    /\ Len(book.asks) = book.depth

(***************************************************************************)
(* VenueCaps as each adapter's caps() resolves them                        *)
(***************************************************************************)
BinanceCaps == [sync_mode |-> "RestAnchored", ws_sends_snapshot |-> FALSE,
                checksum_fn |-> "nullptr", requires_ws_bootstrap |-> FALSE,
                allow_seq_gap |-> FALSE,
                has_checksum |-> FALSE]

OKXCaps == [sync_mode |-> "WsAuthoritative", ws_sends_snapshot |-> TRUE,
            checksum_fn |-> "nullptr", requires_ws_bootstrap |-> FALSE,
            allow_seq_gap |-> FALSE,
            has_checksum |-> TRUE]

BitgetCaps == [sync_mode |-> "WsAuthoritative", ws_sends_snapshot |-> TRUE,
               checksum_fn |-> "checkBitgetCRC32", requires_ws_bootstrap |-> FALSE,
               allow_seq_gap |-> FALSE,
               has_checksum |-> TRUE]

BybitCaps == [sync_mode |-> "WsAuthoritative", ws_sends_snapshot |-> TRUE,
              checksum_fn |-> "nullptr", requires_ws_bootstrap |-> FALSE,
              allow_seq_gap |-> FALSE,
              has_checksum |-> FALSE]

KucoinCaps == [sync_mode |-> "RestAnchored", ws_sends_snapshot |-> FALSE,
               checksum_fn |-> "nullptr", requires_ws_bootstrap |-> TRUE,
               allow_seq_gap |-> TRUE,
               has_checksum |-> FALSE]

(***************************************************************************)
(* SpecCtrl: a controller driven through its public interface with         *)
(* snapshots and incrementals of every sequence shape                      *)
(***************************************************************************)
Seqs == 0..MaxSeq

\* the level lists a message of SpecCtrl carries
CtrlLevels == {[bids |-> <<>>, asks |-> <<>>],
               [bids |-> <<Level(1, 1)>>, asks |-> <<Level(2, 1)>>],
               [bids |-> <<Level(1, 0)>>, asks |-> <<>>]}

\* the level lists a snapshot of SpecSync carries: those of CtrlLevels and one
\* that is unsorted, longer than the depth and holds an empty level
SnapshotLevels ==
    CtrlLevels \cup
        {[bids |-> <<Level(1, 1), Level(3, 2), Level(2, 1)>>,
          asks |-> <<Level(3, 1), Level(1, 0), Level(2, 2)>>]}

\* the checksums a message may carry: none (0), the one that matches the
\* book the message leads to, and one that does not
ChecksumsFor(fn, bk) ==
    IF fn = "nullptr" THEN {0}
    ELSE LET good == localChecksum(bk, ChecksumTopN)
         IN {0, good, IF good = 1 THEN 2 ELSE 1}

\* how the checksum a message carries stands to the book the message leads to
checksumOf(fn, cs, bk) ==
    IF fn = "nullptr" THEN "none"
    ELSE IF cs = 0 THEN "missing"
    ELSE IF cs = localChecksum(bk, ChecksumTopN) THEN "match"
    ELSE "mismatch"

\* where an incremental stands relative to the controller's last sequence
relation(c, msg) ==
    IF msg.last_seq = 0 THEN "noseq"
    ELSE IF msg.last_seq <= c.last_seq THEN "old"
    ELSE IF msg.first_seq <= c.last_seq + 1 THEN "covers"
    ELSE "ahead"

bump(n) == IF n >= 2 THEN 2 ELSE n + 1

coverAfterIncrement(cv, msg, out) ==
    IF out.action = "NeedResync" /\ out.ctrl.state = "WaitingSnapshot" THEN NoCover
    ELSE IF out.branch = "applied" /\ msg.last_seq # 0
    THEN [cv EXCEPT !.cnt = [s \in 1..MaxSeq |->
                                IF msg.first_seq <= s /\ s <= msg.last_seq
                                THEN bump(cv.cnt[s]) ELSE cv.cnt[s]]]
    ELSE cv

coverAfterSnapshot(msg, out) ==
    IF out.action = "None" THEN [NoCover EXCEPT !.base = msg.lastUpdateId] ELSE NoCover

InitCtrl ==
    /\ book = NOrderBook(MaxDepth)
    /\ ctrl = CtrlInit
    /\ caps \in {BinanceCaps, BitgetCaps, KucoinCaps}
    /\ ev = NoEvent
    /\ cover = NoCover
    /\ IdleIO

CtrlSnapshotOf(levels) ==
    \E lv \in levels, S \in Seqs, kind \in {"RestAnchored", "WsAuthoritative"} :
      \E sb \in sort(lv.bids, "BID"), sa \in sort(lv.asks, "ASK") :
        \E cs \in ChecksumsFor(caps.checksum_fn, snapshotBook(book, sb, sa)) :
          \E msg \in {[lastUpdateId |-> S, checksum |-> cs,
                       bids |-> lv.bids, asks |-> lv.asks]} :
          \E out \in {onSnapshot(caps.checksum_fn, book, msg, kind, sb, sa)} :
             /\ book' = out.book
             /\ ctrl' = out.ctrl
             /\ ev' = [op |-> "onSnapshot", action |-> out.action, branch |-> out.branch,
                       kind |-> kind, rel |-> "none", from |-> ctrl.state,
                       last |-> S, checksum |-> checksumOf(caps.checksum_fn, cs,
                                                           snapshotBook(book, sb, sa)),
                       wasEmpty |-> (book.bids = <<>> /\ book.asks = <<>>),
                       levels |-> lv]
             /\ cover' = coverAfterSnapshot(msg, out)
             /\ UNCHANGED <<caps, io>>

CtrlOnSnapshot == CtrlSnapshotOf(CtrlLevels)

CtrlOnLongSnapshot == CtrlSnapshotOf(SnapshotLevels)

\* best bid price >= best ask price
crossed(bk) ==
    /\ bk.bids # <<>> /\ bk.asks # <<>>
    /\ bk.bids[1].priceTick >= bk.asks[1].priceTick

\* level lists that can cross a book: a bid at an ask's price, an ask at a
\* bid's price
CrossLevels == {[bids |-> <<Level(2, 1)>>, asks |-> <<>>],
                [bids |-> <<>>, asks |-> <<Level(1, 1)>>]}

\* an incremental with one of these level lists and sequence ranges
CtrlIncrementOf(levels, ranges) ==
    \E lv \in levels, r \in ranges \cap (Seqs \X Seqs) :
     \E first \in {r[1]}, last \in {r[2]} :
      \E cs \in ChecksumsFor(caps.checksum_fn, applyIncrementUpdate(book, lv)) :
        \E msg \in {[first_seq |-> first, last_seq |-> last, checksum |-> cs,
                     bids |-> lv.bids, asks |-> lv.asks]} :
        \E out \in {onIncrement(caps.checksum_fn, ctrl, book, msg)} :
           /\ book' = out.book
           /\ ctrl' = out.ctrl
           /\ ev' = [op |-> "onIncrement", action |-> out.action, branch |-> out.branch,
                     kind |-> "none", rel |-> relation(ctrl, msg), from |-> ctrl.state,
                     last |-> last, checksum |-> checksumOf(caps.checksum_fn, cs,
                                                    applyIncrementUpdate(book, msg)),
                     wasEmpty |-> (book.bids = <<>> /\ book.asks = <<>>),
                     tooOld |-> (last < ctrl.expected_seq),
                     firstRel |-> IF first <= ctrl.expected_seq THEN "within"
                                  ELSE IF first = ctrl.expected_seq + 1 THEN "next"
                                  ELSE "beyond",
                     unchanged |-> (out.book = book /\ out.ctrl = ctrl),
                     appliedAll |-> (out.book = applyIncrementUpdate(book, msg)),
                     crossedBefore |-> crossed(book)]
           /\ cover' = coverAfterIncrement(cover, msg, out)
           /\ UNCHANGED <<caps, io>>

CtrlOnIncrement == CtrlIncrementOf(CtrlLevels, Seqs \X Seqs)

\* the next incremental in sequence carries a level that can cross the book
CtrlOnCrossingIncrement ==
    CtrlIncrementOf(CrossLevels, {<<ctrl.expected_seq, ctrl.expected_seq>>})

CtrlResetBook ==
    /\ book' = resetBook(book).book
    /\ ctrl' = resetBook(book).ctrl
    /\ ev' = [op |-> "resetBook", action |-> "None", branch |-> "reset",
              kind |-> "none", rel |-> "none", from |-> ctrl.state,
              last |-> 0, checksum |-> "none",
              wasEmpty |-> (book.bids = <<>> /\ book.asks = <<>>)]
    /\ cover' = NoCover
    /\ UNCHANGED <<caps, io>>

(***************************************************************************)
(* The round trip of a snapshot, incrementals that mirror the next         *)
(* snapshot, and that snapshot                                             *)
(***************************************************************************)
\* the snapshots of the round trip: fewer levels than the depth, as many,
\* and more
MirrorLevels ==
    {[bids |-> <<Level(3, 1), Level(2, 1)>>, asks |-> <<>>],
     [bids |-> <<Level(2, 2), Level(1, 1)>>, asks |-> <<Level(3, 1)>>],
     [bids |-> <<Level(3, 2), Level(2, 1), Level(1, 1)>>,
      asks |-> <<Level(2, 1), Level(3, 2)>>]}

PricesOf(levels) == {levels[i].priceTick : i \in 1..Len(levels)}

QuantityIn(levels, p) ==
    IF p \in PricesOf(levels)
    THEN (CHOOSE l \in {levels[i] : i \in 1..Len(levels)} : l.priceTick = p).quantityLot
    ELSE 0

\* every price present in a or in b, set to its quantity in b, in any order
MirrorOrders(a, b) ==
    LET set == {Level(p, QuantityIn(b, p)) : p \in PricesOf(a) \cup PricesOf(b)}
    IN {s \in [1..Cardinality(set) -> set] :
            \A i, j \in 1..Cardinality(set) : i # j => s[i] # s[j]}

\* every level with quantity 0 comes before every level with a quantity
DeletesFirst(levels) ==
    \A i, j \in 1..Len(levels) :
        (isEmpty(levels[j]) /\ ~isEmpty(levels[i])) => j < i

\* the checksum a venue with checksum support sends with a message that
\* leads to book bk
venueChecksum(fn, bk) == IF fn = "nullptr" THEN 0 ELSE localChecksum(bk, ChecksumTopN)

\* a venue with checksum support never sends 0, which stands for no checksum
sendable(fn, bk) == fn = "nullptr" \/ venueChecksum(fn, bk) # 0

mirrorSnapshot(a, fn, bk, sb, sa) ==
    [lastUpdateId |-> 1, checksum |-> venueChecksum(fn, snapshotBook(bk, sb, sa)),
     bids |-> a.bids, asks |-> a.asks]

\* the incremental [seq, seq] with these levels and the venue's checksum for
\* the book they lead to
mirrorIncrement(fn, bk, seq, bids, asks) ==
    [first_seq |-> seq, last_seq |-> seq,
     checksum |-> venueChecksum(fn, applyIncrementUpdate(bk, [bids |-> bids,
                                                              asks |-> asks])),
     bids |-> bids, asks |-> asks]

\* snapshot a with id 1, then the mirror of b in two contiguous incrementals:
\* the first k bid levels, then the remaining bid levels and the ask levels
CtrlMirror ==
    /\ ctrl = CtrlInit
    /\ \E a \in MirrorLevels, b \in MirrorLevels :
         \E sb \in sort(a.bids, "BID"), sa \in sort(a.asks, "ASK"),
            mb \in MirrorOrders(a.bids, b.bids), ma \in MirrorOrders(a.asks, b.asks) :
           \E k \in 0..Len(mb) :
             \E o1 \in {onSnapshot(caps.checksum_fn, book,
                                   mirrorSnapshot(a, caps.checksum_fn, book, sb, sa),
                                   caps.sync_mode, sb, sa)} :
             \E m2 \in {mirrorIncrement(caps.checksum_fn, o1.book, 2,
                                        SubSeq(mb, 1, k), <<>>)} :
             \E o2 \in {onIncrement(caps.checksum_fn, o1.ctrl, o1.book, m2)} :
             \E m3 \in {mirrorIncrement(caps.checksum_fn, o2.book, 3,
                                        SubSeq(mb, k + 1, Len(mb)), ma)} :
             \E out \in {onIncrement(caps.checksum_fn, o2.ctrl, o2.book, m3)} :
                /\ sendable(caps.checksum_fn, snapshotBook(book, sb, sa))
                /\ sendable(caps.checksum_fn, applyIncrementUpdate(o1.book, m2))
                /\ sendable(caps.checksum_fn, applyIncrementUpdate(o2.book, m3))
                /\ book' = out.book
                /\ ctrl' = out.ctrl
                /\ ev' = [op |-> "mirror", action |-> out.action, branch |-> out.branch,
                          kind |-> caps.sync_mode, rel |-> "covers", from |-> ctrl.state,
                          last |-> 3, checksum |-> "match",
                          wasEmpty |-> (book.bids = <<>> /\ book.asks = <<>>),
                          target |-> b,
                          deletesFirst |-> DeletesFirst(mb) /\ DeletesFirst(ma)]
                /\ cover' = [base |-> 1, cnt |-> [s \in 1..MaxSeq |-> IF s \in {2, 3} THEN 1 ELSE 0]]
                /\ UNCHANGED <<caps, io>>

NextCtrl == CtrlOnSnapshot \/ CtrlOnIncrement \/ CtrlResetBook

SpecCtrl == InitCtrl /\ [][NextCtrl]_vars

\* a controller that is given snapshots of any length and order, round
\* trips, and incrementals that can cross the book
NextSync ==
    CtrlOnLongSnapshot \/ CtrlMirror \/ CtrlOnCrossingIncrement \/ CtrlResetBook

SpecSync == InitCtrl /\ [][NextSync]_vars

(***************************************************************************)
(* C2 (as stated): for a RestAnchored venue, in WaitingBridge after a      *)
(* snapshot with id S, every incremental with last_seq <= S is discarded   *)
(* (the call returns None) without changing the book or the sequence       *)
(* counters, and the controller is promoted to Synced exactly by an        *)
(* incremental with first_seq <= S+1 <= last_seq, after which last_seq is  *)
(* that incremental's last_seq.                                            *)
(***************************************************************************)
Bridging == ev.op = "onIncrement" /\ ev.from = "WaitingBridge"
                /\ caps.sync_mode = "RestAnchored"

C2_Promotion ==
    Bridging =>
        /\ (ev.rel = "covers" <=> ctrl.state = "Synced")
        /\ (ev.rel = "covers" => ctrl.last_seq = ev.last /\ ev.action = "None")

C2_Original ==
    [][(ev'.op = "onIncrement" /\ ctrl.state = "WaitingBridge"
            /\ caps.sync_mode = "RestAnchored" /\ ev'.last <= ctrl.last_seq)
          => (book' = book /\ ctrl' = ctrl /\ ev'.action = "None")]_vars
       /\ []C2_Promotion

(***************************************************************************)
(* C2 (amended): as C2, for every incremental that carries sequence        *)
(* information: 1 <= last_seq <= S is discarded without changing the book  *)
(* or the counters.  An incremental with last_seq = 0 is not discarded:    *)
(* the controller of a venue without checksum answers it with NeedResync.  *)
(***************************************************************************)
C2_Bridging ==
    [][(ev'.op = "onIncrement" /\ ctrl.state = "WaitingBridge"
            /\ caps.sync_mode = "RestAnchored")
          => /\ (1 <= ev'.last /\ ev'.last <= ctrl.last_seq)
                    => (book' = book /\ ctrl' = ctrl /\ ev'.action = "None")
             /\ ev'.last = 0 => (ev'.action = "NeedResync" /\ ctrl' = ctrl)]_vars
       /\ []C2_Promotion

\* scenario S1 scaled to the model's sequence range: snapshot 2, the
\* incremental [2..4] bridges, the controller is Synced with last_seq 4
C2_Witness ==
    /\ Bridging
    /\ ev.rel = "covers"
    /\ cover.base = 2
    /\ ctrl.state = "Synced"
    /\ ctrl.last_seq = 4
    /\ cover.cnt[2] = 1

(***************************************************************************)
(* C3: for every incremental that carries sequence information and is      *)
(* applied by onIncrement, last_seq after the call is strictly greater     *)
(* than before the call and expected_seq equals the new last_seq + 1.      *)
(***************************************************************************)
C3_SeqAdvance ==
    [][(ev'.op = "onIncrement" /\ ev'.last # 0 /\ ev'.branch = "applied")
          => (ctrl'.last_seq > ctrl.last_seq
                /\ ctrl'.expected_seq = ctrl'.last_seq + 1)]_vars

C3_Witness ==
    /\ ev.op = "onIncrement"
    /\ ev.branch = "applied"
    /\ ev.from = "Synced"
    /\ ev.last = MaxSeq
    /\ ctrl.last_seq = MaxSeq

(***************************************************************************)
(* C4 (as stated): within one lineage the applied incrementals cover every *)
(* sequence number from S+1 up to the current last_seq, none skipped and   *)
(* none applied twice; an incremental that would leave a gap is never      *)
(* applied and yields NeedResync.                                          *)
(***************************************************************************)
C4_NoSkip ==
    /\ ctrl.state # "WaitingSnapshot" =>
          /\ cover.base <= ctrl.last_seq
          /\ \A s \in 1..MaxSeq :
                (cover.base < s /\ s <= ctrl.last_seq) => cover.cnt[s] >= 1
          /\ \A s \in 1..MaxSeq : s > ctrl.last_seq => cover.cnt[s] = 0
    /\ (ev.op = "onIncrement" /\ ev.from # "WaitingSnapshot" /\ ev.rel = "ahead")
          => (ev.action = "NeedResync" /\ ev.branch # "applied")

C4_Original ==
    /\ C4_NoSkip
    /\ \A s \in 1..MaxSeq : cover.base < s => cover.cnt[s] <= 1

(***************************************************************************)
(* C4 (amended): within one lineage the applied incrementals cover every   *)
(* sequence number from S+1 up to the current last_seq with none skipped;  *)
(* an incremental that would leave a gap is never applied and yields       *)
(* NeedResync.  An applied incremental may start before expected_seq, so a *)
(* sequence number can be covered by more than one applied incremental.    *)
(***************************************************************************)
C4_Lineage ==
    /\ C4_NoSkip
    /\ \A s \in 1..MaxSeq : cover.cnt[s] >= 1 => s <= ctrl.last_seq

C4_Witness ==
    /\ ctrl.state = "Synced"
    /\ cover.base = 1
    /\ ctrl.last_seq = MaxSeq
    /\ \A s \in 2..MaxSeq : cover.cnt[s] >= 1
    /\ \E s \in 2..MaxSeq : cover.cnt[s] = 2

(***************************************************************************)
(* C5: when a checksum function is configured and a snapshot (onSnapshot)  *)
(* or an incremental (onIncrement, in WaitingBridge or Synced) fails       *)
(* checksum validation, the call returns NeedResync, the book is empty     *)
(* afterwards and the controller state after the call is not Synced.       *)
(***************************************************************************)
FailsChecksum ==
    /\ caps.checksum_fn # "nullptr"
    /\ ev.checksum \in {"mismatch", "missing"}
    /\ \/ ev.op = "onSnapshot"
       \/ /\ ev.op = "onIncrement"
          /\ ev.from \in {"WaitingBridge", "Synced"}
          /\ ev.rel \in {"covers", "noseq"}

C5_ChecksumFailure ==
    FailsChecksum =>
        /\ ev.action = "NeedResync"
        /\ book.bids = <<>> /\ book.asks = <<>>
        /\ ctrl.state # "Synced"

C5_Witness ==
    /\ FailsChecksum
    /\ ev.op = "onIncrement"
    /\ ev.from = "Synced"
    /\ ev.checksum = "mismatch"
    /\ ~ev.wasEmpty

(***************************************************************************)
(* WsClient and GenericFeedHandler.  Every completion handler and every    *)
(* public call runs on the strand to its end, calls into the other object  *)
(* included (boost::asio::dispatch runs inline on the idle strand), so an  *)
(* operation is a function from world to world:                            *)
(*   w = [book, ctrl, caps, hnd, ws, rest, timer, g]                       *)
(* w.g records what the step did.                                          *)
(* An outstanding asynchronous operation is "pending", or "aborted" once   *)
(* its socket was cancelled or closed under it: it then completes with an  *)
(* error.  ws.stale holds the operations of an earlier connect() that have *)
(* not completed yet.                                                      *)
(***************************************************************************)
MaxOutbox == 2
MaxSends == 3

RECURSIVE restartSync(_)
RECURSIVE onWSOpen(_)
RECURSIVE onWSMessage(_, _)

abort(op) == IF op = "none" THEN "none" ELSE "aborted"

\* an operation started on a socket that is not open completes with an error
started(w) == IF w.ws.sock = "open" THEN "pending" ELSE "aborted"

stop_ping_loop_(w) == [w EXCEPT !.ws.ping = IF @ = "timer" THEN "none" ELSE @]

disarm_connect_deadline_(w) == [w EXCEPT !.ws.deadline = FALSE]

arm_connect_deadline_(w) == [w EXCEPT !.ws.deadline = TRUE]

close_socket_hard_(w) ==
    [w EXCEPT !.ws.sock = "closed",
              !.ws.conn = abort(@), !.ws.read = abort(@), !.ws.write = abort(@),
              !.ws.closeOp = abort(@),
              !.ws.ping = IF @ = "op" THEN "aborted" ELSE @]

\* GenericFeedHandler::onWSClose_
onWSClose_(w) ==
    IF w.hnd.closing_for_restart_
    THEN [w EXCEPT !.hnd.closing_for_restart_ = FALSE, !.g.swallowed = TRUE]
    ELSE restartSync(w)

\* the on_close handler: the lambda start() installs, or none
on_close_(w) ==
    LET w1 == [w EXCEPT !.ws.closes = bump(@), !.g.on_close = bump(@)]
    IN IF w.ws.handlers # "handler" THEN w1
       ELSE IF ~w1.hnd.running_ THEN w1
       ELSE onWSClose_(w1)

notify_close_once_(w) ==
    IF w.ws.close_notified_ THEN w
    ELSE on_close_([w EXCEPT !.ws.close_notified_ = TRUE])

WsClient_fail_(w) ==
    IF w.ws.closing_ THEN notify_close_once_(w)
    ELSE notify_close_once_(close_socket_hard_(disarm_connect_deadline_(
             stop_ping_loop_([w EXCEPT !.ws.closing_ = TRUE]))))

\* resolver_.cancel(): every outstanding resolve fails, the one an earlier
\* connect() left behind included
resolver_cancel(w) ==
    [w EXCEPT !.ws.resolve = abort(@),
              !.ws.stale = IF "resolve" \in @
                           THEN (@ \ {"resolve"}) \cup {"sock"} ELSE @]

WsClient_cancel(w) ==
    IF w.ws.closing_ THEN w
    ELSE notify_close_once_(close_socket_hard_(resolver_cancel(
             stop_ping_loop_([w EXCEPT !.ws.closing_ = TRUE]))))

WsClient_close(w) ==
    IF w.ws.closing_ THEN w
    ELSE LET w1 == stop_ping_loop_([w EXCEPT !.ws.closing_ = TRUE])
         IN IF ~w1.ws.opened_
            THEN notify_close_once_(close_socket_hard_(w1))
            ELSE [w1 EXCEPT !.ws.closeOp = started(w1)]

do_write_(w) ==
    IF w.ws.outbox_ = <<>> THEN w
    ELSE [w EXCEPT !.ws.write_in_flight_ = TRUE, !.ws.write = started(w),
                   !.g.overlap = @ \/ w.ws.write # "none"]

start_write_(w) ==
    IF w.ws.write_in_flight_ THEN w
    ELSE IF w.ws.outbox_ = <<>> THEN w
    ELSE do_write_(w)

send_text(w, text) ==
    IF w.ws.closing_ THEN w
    ELSE LET w1 == [w EXCEPT !.ws.outbox_ = Append(@, text)]
         IN IF w1.ws.opened_ THEN start_write_(w1) ELSE w1

do_resolve_(w) == [w EXCEPT !.ws.resolve = "pending"]

\* the operations of the connection that connect() replaces stay outstanding
staleAfterConnect(x) ==
    x.stale
      \cup (IF x.resolve = "pending" THEN {"resolve"} ELSE {})
      \cup (IF x.resolve = "aborted" \/ x.conn # "none" \/ x.read # "none"
               \/ x.ping \in {"op", "aborted"} THEN {"sock"} ELSE {})
      \cup (IF x.write # "none" THEN {"write"} ELSE {})
      \cup (IF x.closeOp # "none" THEN {"close"} ELSE {})

WsClient_connect(w) ==
    LET x == w.ws
        fresh == [x EXCEPT !.closing_ = FALSE, !.opened_ = FALSE,
                           !.close_notified_ = FALSE,
                           !.outbox_ = <<>>, !.write_in_flight_ = FALSE,
                           !.base = x.sends, !.wire = <<>>,
                           !.sock = "closed", !.resolve = "none", !.conn = "none",
                           !.read = "none", !.write = "none", !.closeOp = "none",
                           !.ping = "none", !.deadline = FALSE,
                           !.stale = staleAfterConnect(x),
                           !.closes = 0]
    IN do_resolve_(arm_connect_deadline_(
           [w EXCEPT !.ws = fresh, !.g.missed = (x.closing_ /\ x.closes = 0)]))

\* async_connect opens the socket (closing it first when it is open)
do_tcp_connect_(w) ==
    [w EXCEPT !.ws.sock = "open", !.ws.conn = "tcp",
              !.ws.stale = (@ \cup (IF w.ws.conn # "none" \/ w.ws.read # "none"
                                         \/ w.ws.ping \in {"op", "aborted"}
                                      THEN {"sock"} ELSE {}))
                              \cup (IF w.ws.write # "none" THEN {"write"} ELSE {})
                              \cup (IF w.ws.closeOp # "none" THEN {"close"} ELSE {}),
              !.ws.read = "none", !.ws.write = "none", !.ws.closeOp = "none",
              !.ws.ping = IF @ \in {"op", "aborted"} THEN "none" ELSE @]

do_tls_handshake_(w) ==
    [w EXCEPT !.ws.conn = IF w.ws.sock = "open" THEN "tls" ELSE "aborted"]

do_ws_handshake_(w) ==
    [w EXCEPT !.ws.conn = IF w.ws.sock = "open" THEN "wshs" ELSE "aborted"]

do_read_(w) == [w EXCEPT !.ws.read = started(w)]

start_ping_loop_(w) ==
    IF w.ws.ping_interval_ <= 0 THEN w ELSE [w EXCEPT !.ws.ping = "timer"]

\* the on_open handler: the lambda start() installs, or none
on_open_(w) == IF w.ws.handlers = "handler" THEN onWSOpen(w) ELSE w

\* the on_raw_message handler
on_raw_message_(w, p) ==
    IF w.ws.handlers = "handler" THEN onWSMessage(w, p) ELSE w


(***************************************************************************)
(* WsClient: the completion handlers                                       *)
(***************************************************************************)
\* do_resolve_'s handler
on_resolve(w, ok) ==
    LET w1 == [w EXCEPT !.ws.resolve = "none"]
    IN IF ~ok THEN WsClient_fail_(w1) ELSE do_tcp_connect_(w1)

\* do_tcp_connect_'s handler (an SNI failure is one of the errors)
on_tcp_connect(w, ok) ==
    LET w1 == [w EXCEPT !.ws.conn = "none"]
    IN IF ~ok THEN WsClient_fail_(w1) ELSE do_tls_handshake_(w1)

\* do_tls_handshake_'s handler
on_tls_handshake(w, ok) ==
    LET w1 == [w EXCEPT !.ws.conn = "none"]
    IN IF ~ok THEN WsClient_fail_(w1) ELSE do_ws_handshake_(w1)

\* do_ws_handshake_'s handler
on_ws_handshake(w, ok) ==
    LET w1 == [w EXCEPT !.ws.conn = "none"]
    IN IF ~ok THEN WsClient_fail_(w1)
       ELSE do_read_(start_ping_loop_(on_open_(start_write_(
                [disarm_connect_deadline_(w1) EXCEPT !.ws.opened_ = TRUE]))))

\* do_read_'s handler: a message, the peer's close frame, or an error
on_read(w, outcome, p) ==
    LET w1 == [w EXCEPT !.ws.read = "none"]
    IN IF outcome = "closed"
       THEN notify_close_once_(close_socket_hard_(disarm_connect_deadline_(
                stop_ping_loop_([w1 EXCEPT !.ws.closing_ = TRUE]))))
       ELSE IF outcome = "error" THEN WsClient_fail_(w1)
       ELSE do_read_(on_raw_message_(w1, p))

\* do_write_'s handler
\* do_write_'s handler without outbox_.pop_front()
on_write_noPop(w, ok) ==
    LET w1 == [w EXCEPT !.ws.write = "none", !.ws.write_in_flight_ = FALSE]
    IN IF ~ok THEN WsClient_fail_(w1)
       ELSE start_write_([w1 EXCEPT !.ws.wire = Append(@, Head(w1.ws.outbox_))])

on_write(w, ok) ==
    LET w1 == [w EXCEPT !.ws.write = "none", !.ws.write_in_flight_ = FALSE]
    IN IF ~ok THEN WsClient_fail_(w1)
       ELSE start_write_([w1 EXCEPT !.ws.wire = Append(@, Head(w1.ws.outbox_)),
                                    !.ws.outbox_ = Tail(@)])

\* close()'s async_close handler
on_async_close(w) ==
    notify_close_once_(close_socket_hard_([w EXCEPT !.ws.closeOp = "none"]))

\* arm_connect_deadline_'s handler, the wait having expired
on_connect_deadline(w) ==
    WsClient_fail_([w EXCEPT !.ws.deadline = FALSE,
                             !.g.timeout = IF w.ws.closing_ THEN "closing"
                                           ELSE "attempt"])

\* start_ping_loop_'s timer handler
on_ping_timer(w) ==
    IF w.ws.closing_ \/ ~w.ws.opened_ THEN [w EXCEPT !.ws.ping = "none"]
    ELSE [w EXCEPT !.ws.ping = IF w.ws.sock = "open" THEN "op" ELSE "aborted"]

\* async_ping's handler
on_ping(w, ok) ==
    LET w1 == [w EXCEPT !.ws.ping = "none"]
    IN IF ~ok THEN WsClient_fail_(w1) ELSE start_ping_loop_(w1)

\* the handler of an operation that an earlier connect() left outstanding
on_stale(w, kind, ok) ==
    LET w1 == [w EXCEPT !.ws.stale = @ \ {kind}]
    IN CASE kind = "sock" -> WsClient_fail_(w1)
         [] kind = "write" -> WsClient_fail_([w1 EXCEPT !.ws.write_in_flight_ = FALSE])
         [] kind = "close" -> notify_close_once_(close_socket_hard_(w1))
         [] kind = "resolve" -> IF ok THEN do_tcp_connect_(w1) ELSE WsClient_fail_(w1)


(***************************************************************************)
(* GenericFeedHandler                                                      *)
(***************************************************************************)
\* what a step did: the calls made and what the controller returned
\* (from: the handler's state when a WS message arrived; missed: connect()
\* ended a connection that was closing and had not called on_close;
\* status: the HTTP status of the snapshot reply delivered; branch: the return
\* statement of the controller's last call; wire: how the checksum of an
\* incremental applied in the steady state stands to the book it leads to;
\* text: the text passed to send_text; overlap: async_write was called while
\* a write of this connection was outstanding; timeout: the connect deadline's
\* handler ran, on an attempt in progress or on a client already closing;
\* bootstrap: the bootstrap callback ran, with the endpoint of the response or
\* "failed"; connectTo: the endpoint connectWS passed to WsClient::connect;
\* idle: restartSync was called on a handler that is not running; open:
\* onWSOpen ran on a running handler; subscribe: what became of the subscribe
\* frame; gets, posts: the calls of RestClient::async_get and async_post;
\* busy: one of them was refused with operation_in_progress; rebaseline: the
\* lastUpdateId of the WS snapshot that re-baselined mid-stream, or -1;
\* drain: drainBufferedIncrementals ran, on the buffer drained, handing the
\* payloads fed to onIncrement, which returned the Actions acts)
G(op) == [op |-> op, from |-> "-", restarts |-> 0, on_close |-> 0,
          attempts |-> 0, swallowed |-> FALSE, needResync |-> FALSE,
          enqueued |-> FALSE, full |-> FALSE, isInc |-> FALSE,
          missed |-> FALSE, wasRunning |-> hnd.running_,
          status |-> 0, branch |-> "none", wire |-> "none", text |-> 0,
          overlap |-> FALSE, timeout |-> "none",
          bootstrap |-> "none", connectTo |-> "none", idle |-> FALSE,
          open |-> FALSE, subscribe |-> "none", gets |-> 0, posts |-> 0,
          busy |-> FALSE, rebaseline |-> -1,
          drain |-> FALSE, drained |-> <<>>, fed |-> <<>>, acts |-> <<>>,
          malformed |-> FALSE, applied |-> "none"]

World(op) == [book |-> book, ctrl |-> ctrl, caps |-> caps, hnd |-> hnd, ws |-> ws,
              rest |-> rest, timer |-> timer, g |-> G(op)]

\* the payloads of the model: one level list per message type
IncLevels == [bids |-> <<Level(1, 1)>>, asks |-> <<>>]
SnapLevels == [bids |-> <<Level(1, 1)>>, asks |-> <<Level(2, 1)>>]

\* VenueAdapter::isIncremental / isSnapshot on a raw payload
isIncremental(p) == p.type = "inc"
isSnapshot(p) == p.type = "snap"

\* VenueAdapter::parseIncremental / parseSnapshot / parseWsSnapshot: p.ok
\* tells whether the parse succeeds
parseIncremental(p) ==
    [first_seq |-> p.first, last_seq |-> p.last, checksum |-> p.cs,
     bids |-> IncLevels.bids, asks |-> IncLevels.asks]

parseSnapshot(p) ==
    [lastUpdateId |-> p.last, checksum |-> p.cs,
     bids |-> SnapLevels.bids, asks |-> SnapLevels.asks]

isSynced(w) == w.ctrl.state = "Synced"

\* an HTTP reply without a usable body
NoBody == [type |-> "none", ok |-> FALSE, first |-> 0, last |-> 0, cs |-> 0]
NoBootstrap == [ok |-> FALSE, ping_interval_ms |-> 0, ws |-> "none"]

\* the controller after a call that returned out; the returned Action is
\* recorded in w.g
controllerAfter(w, out) ==
    [w EXCEPT !.book = out.book, !.ctrl = out.ctrl,
              !.g.needResync = @ \/ out.action = "NeedResync",
              !.g.branch = out.branch]

\* controller_->onSnapshot(snap, kind), its return value dropped
controllerOnSnapshot(w, snap, kind) ==
    controllerAfter(w, onSnapshot(w.caps.checksum_fn, w.book, snap, kind,
                                  CHOOSE v \in sort(snap.bids, "BID") : TRUE,
                                  CHOOSE v \in sort(snap.asks, "ASK") : TRUE))

\* state_ = SyncState::SYNCED without asking the controller
syncedIfBridged_unasked(w) == [w EXCEPT !.hnd.state_ = "SYNCED"]

\* if (controller_->isSynced()) state_ = SyncState::SYNCED
syncedIfBridged(w) ==
    IF isSynced(w) THEN [w EXCEPT !.hnd.state_ = "SYNCED"] ELSE w

\* expires_after cancels the armed wait: its handler returns on the error
expires_after(w, closure) == [w EXCEPT !.timer.wait = closure]

\* ++reconnect_gen_: the counter is kept relative to the wait handlers that
\* captured it, a handler's my_gen being the current generation or an older one
schedule_ws_reconnect_(w) ==
    expires_after([w EXCEPT !.timer.ready = {[c EXCEPT !.my_gen = IF c.kind = "reconnect" THEN "older" ELSE @] : c \in @},
                            !.hnd.reconnect_scheduled_ = TRUE],
                  [kind |-> "reconnect", my_gen |-> "current"])

\* controller_->resetBook()
controllerResetBook(w) ==
    [w EXCEPT !.book = resetBook(w.book).book, !.ctrl = resetBook(w.book).ctrl]

restartSync(w) ==
    IF ~w.hnd.running_ THEN [w EXCEPT !.g.idle = TRUE]
    ELSE schedule_ws_reconnect_(WsClient_cancel(
             [controllerResetBook([w EXCEPT !.hnd.buffer_ = <<>>])
                 EXCEPT !.hnd.state_ = "CONNECTING",
                        !.hnd.closing_for_restart_ = TRUE,
                        !.g.restarts = bump(@)]))

\* controller_->onIncrement(inc): the Outcome for the handler's controller
controllerOnIncrement(w, inc) ==
    onIncrement(w.caps.checksum_fn, w.ctrl, w.book, inc)

RECURSIVE drainLoop(_)
\* the loop body that goes on after a NeedResync
drainNext_deaf(w, out) ==
    drainLoop([controllerAfter(w, out) EXCEPT !.g.acts = Append(@, out.action)])

\* the loop body once the controller returned out for the popped message
drainNext(w, out) ==
    IF out.action = "NeedResync"
    THEN restartSync([controllerAfter(w, out) EXCEPT !.g.acts = Append(@, out.action)])
    ELSE drainLoop([controllerAfter(w, out) EXCEPT !.g.acts = Append(@, out.action)])

\* while (!buffer_.empty())
drainLoop(w) ==
    IF w.hnd.buffer_ = <<>> THEN w
    ELSE IF ~(isIncremental(Head(w.hnd.buffer_)) /\ Head(w.hnd.buffer_).ok)
    THEN drainLoop([w EXCEPT !.hnd.buffer_ = Tail(@)])
    ELSE drainNext([w EXCEPT !.hnd.buffer_ = Tail(@),
                             !.g.fed = Append(@, Head(w.hnd.buffer_))],
                   controllerOnIncrement(w, parseIncremental(Head(w.hnd.buffer_))))

drainBufferedIncrementals(w) ==
    drainLoop([w EXCEPT !.g.drain = TRUE, !.g.drained = w.hnd.buffer_])

onSnapshotResponse(w, body) ==
    IF ~w.hnd.running_ THEN w
    ELSE IF ~body.ok THEN restartSync(w)
    ELSE syncedIfBridged(drainBufferedIncrementals(
             [controllerOnSnapshot([w EXCEPT !.g.applied = w.hnd.state_],
                                   parseSnapshot(body),
                                   IF w.caps.sync_mode = "RestAnchored"
                                   THEN "RestAnchored" ELSE "WsAuthoritative")
                 EXCEPT !.hnd.state_ = "WAIT_BRIDGE"]))

\* requestSnapshot's completion lambda
snapshotCallback(w, reply) ==
    IF ~w.hnd.running_ THEN w
    ELSE IF reply.ec THEN restartSync(w)
    ELSE IF reply.status = 429 \/ reply.status = 418
    THEN expires_after(w, [kind |-> "retry", my_gen |-> "current"])
    ELSE IF reply.status < 200 \/ reply.status >= 300 THEN restartSync(w)
    ELSE onSnapshotResponse(w, reply.body)

\* RestClient::async_get as the handler uses it: one request in flight, a
\* second one completes at once with operation_in_progress
RestClient_async_get(w) ==
    IF w.rest.in_flight_
    THEN snapshotCallback([w EXCEPT !.g.gets = bump(@), !.g.busy = TRUE],
                          [ec |-> TRUE, status |-> 0, body |-> NoBody])
    ELSE [w EXCEPT !.rest = [in_flight_ |-> TRUE, cb |-> "snapshot", aborted |-> FALSE],
                   !.g.gets = bump(@)]

requestSnapshot(w) ==
    RestClient_async_get([w EXCEPT !.hnd.state_ = "WAIT_REST_SNAPSHOT"])

connectWS(w) ==
    WsClient_connect([w EXCEPT !.ws.ping_interval_ = w.hnd.ws_ping_interval_ms,
                               !.ws.host_ = w.hnd.rt_ws,
                               !.g.attempts = bump(@),
                               !.g.connectTo = w.hnd.rt_ws])

\* bootstrapWS's completion lambda
bootstrapCallback(w, reply) ==
    IF reply.ec THEN restartSync([w EXCEPT !.g.bootstrap = "failed"])
    ELSE IF ~reply.body.ok THEN restartSync([w EXCEPT !.g.bootstrap = "failed"])
    ELSE connectWS([w EXCEPT !.hnd.rt_ws = reply.body.ws,
                             !.hnd.ws_ping_interval_ms = reply.body.ping_interval_ms,
                             !.g.bootstrap = reply.body.ws])

RestClient_async_post(w) ==
    IF w.rest.in_flight_
    THEN bootstrapCallback([w EXCEPT !.g.posts = bump(@), !.g.busy = TRUE],
                           [ec |-> TRUE, status |-> 0, body |-> NoBootstrap])
    ELSE [w EXCEPT !.rest = [in_flight_ |-> TRUE, cb |-> "bootstrap", aborted |-> FALSE],
                   !.g.attempts = bump(@), !.g.posts = bump(@)]

bootstrapWS(w) ==
    IF ~w.hnd.running_ THEN w ELSE RestClient_async_post(w)

\* the subscribe frame after the send_text that led from w to w1
subscribed(w, w1) ==
    IF w.hnd.wsSubscribeFrame = "" THEN "empty"
    ELSE IF w1.ws.outbox_ = Append(w.ws.outbox_, w.hnd.wsSubscribeFrame) THEN "sent"
    ELSE "dropped"

onWSOpen(w) ==
    IF ~w.hnd.running_ THEN w
    ELSE LET w1 == IF w.hnd.wsSubscribeFrame # ""
                   THEN send_text(w, w.hnd.wsSubscribeFrame) ELSE w
             w2 == [w1 EXCEPT !.g.open = TRUE, !.g.subscribe = subscribed(w, w1)]
         IN IF w2.caps.sync_mode = "RestAnchored"
            THEN requestSnapshot([w2 EXCEPT !.hnd.state_ = "WAIT_REST_SNAPSHOT"])
            ELSE [w2 EXCEPT !.hnd.state_ = "WAIT_WS_SNAPSHOT"]


\* the test left out: there is always room
hasRoom_always(w) == TRUE

\* buffer_.size() < max_buffer_
hasRoom(w) == Len(w.hnd.buffer_) < w.hnd.max_buffer_

\* buffer_.emplace_back(msg) while there is room, restartSync() otherwise
bufferOrRestart(w, p) ==
    IF hasRoom(w)
    THEN [w EXCEPT !.hnd.buffer_ = Append(@, p), !.g.enqueued = TRUE]
    ELSE restartSync(w)

\* a mid-stream WS snapshot that leaves state_ as it was
rebaselined_keepsState(w) == [w EXCEPT !.hnd.buffer_ = <<>>]

\* a mid-stream WS snapshot: the buffer is dropped, the state follows the
\* controller
rebaselined(w) ==
    [w EXCEPT !.hnd.buffer_ = <<>>,
              !.hnd.state_ = IF isSynced(w) THEN "SYNCED" ELSE "WAIT_BRIDGE"]

\* how the checksum the venue put on an incremental stands to the book the
\* incremental leads to; a venue without has_checksum sends none
wireChecksumOf(w, inc) ==
    IF ~w.caps.has_checksum THEN "none"
    ELSE IF inc.checksum = 0 THEN "missing"
    ELSE IF inc.checksum = localChecksum(applyIncrementUpdate(w.book, inc), ChecksumTopN)
    THEN "match"
    ELSE "mismatch"

\* the steady-state apply once the controller returned out; st is state_
applied(w, out, st) ==
    IF out.action = "NeedResync" THEN restartSync(controllerAfter(w, out))
    ELSE IF st = "WAIT_BRIDGE" THEN syncedIfBridged(controllerAfter(w, out))
    ELSE controllerAfter(w, out)

\* onWSMessage on a running handler, len > 0
dispatchMessage(w, p, st, isSnap) ==
    IF st = "WAIT_REST_SNAPSHOT"
    THEN IF isIncremental(p) THEN bufferOrRestart(w, p) ELSE w
    ELSE IF st = "WAIT_WS_SNAPSHOT"
    THEN IF isSnap
         THEN syncedIfBridged(drainBufferedIncrementals(
                  [controllerOnSnapshot(w, parseSnapshot(p), "WsAuthoritative")
                      EXCEPT !.hnd.state_ = "WAIT_BRIDGE"]))
         ELSE IF isIncremental(p) THEN bufferOrRestart(w, p) ELSE w
    ELSE IF st \in {"WAIT_BRIDGE", "SYNCED"} /\ w.caps.ws_sends_snapshot /\ isSnap
    THEN rebaselined(controllerOnSnapshot([w EXCEPT !.g.rebaseline = p.last],
                                          parseSnapshot(p), "WsAuthoritative"))
    ELSE IF st \in {"WAIT_BRIDGE", "SYNCED"}
    THEN IF w.caps.sync_mode = "RestAnchored" /\ st = "WAIT_BRIDGE"
         THEN IF ~isIncremental(p) THEN w
              ELSE IF ~hasRoom(w) THEN restartSync(w)
              ELSE syncedIfBridged(drainBufferedIncrementals(
                       [w EXCEPT !.hnd.buffer_ = Append(@, p),
                                 !.g.enqueued = TRUE]))
         ELSE IF ~(isIncremental(p) /\ p.ok) THEN w
              ELSE applied([w EXCEPT !.g.wire = wireChecksumOf(w, parseIncremental(p))],
                           controllerOnIncrement(w, parseIncremental(p)), st)
    ELSE w

\* a text that is neither a snapshot nor an incremental, or does not parse
malformedText(p) == ~(isIncremental(p) \/ isSnapshot(p)) \/ ~p.ok

onWSMessage(w, p) ==
    IF ~w.hnd.running_ \/ p.type = "empty"
    THEN [w EXCEPT !.g.isInc = isIncremental(p), !.g.from = w.hnd.state_,
                   !.g.malformed = malformedText(p)]
    ELSE dispatchMessage(
             [w EXCEPT !.g.isInc = isIncremental(p), !.g.from = w.hnd.state_,
                       !.g.malformed = malformedText(p),
                       !.g.full = (Len(w.hnd.buffer_) >= w.hnd.max_buffer_)],
             p, w.hnd.state_, isSnapshot(p) /\ p.ok)

\* RestClient::cancel: the request in flight completes with operation_aborted
RestClient_cancel(w) ==
    IF w.rest.in_flight_ THEN [w EXCEPT !.rest.aborted = TRUE] ELSE w

start(w) ==
    IF w.hnd.running_ THEN w
    ELSE LET w1 == [w EXCEPT !.hnd.running_ = TRUE, !.hnd.state_ = "CONNECTING",
                             !.ws.handlers = "handler"]
         IN IF w1.caps.requires_ws_bootstrap
            THEN bootstrapWS([w1 EXCEPT !.hnd.state_ = "BOOTSTRAPPING"])
            ELSE connectWS(w1)

\* stop() without buffer_.clear()
stop_keepsBuffer(w) ==
    controllerResetBook(
        [WsClient_close(RestClient_cancel([w EXCEPT !.hnd.running_ = FALSE]))
            EXCEPT !.hnd.state_ = "DISCONNECTED"])

stop(w) ==
    LET w1 == [WsClient_close(RestClient_cancel([w EXCEPT !.hnd.running_ = FALSE]))
                  EXCEPT !.hnd.state_ = "DISCONNECTED", !.hnd.buffer_ = <<>>]
    IN IF w1.hnd.controller_ THEN controllerResetBook(w1) ELSE w1

\* the wait handler without its running_ test
reconnectCallback_unguarded(w, my_gen) ==
    IF my_gen # "current" THEN w
    ELSE IF w.caps.requires_ws_bootstrap
    THEN RestClient_async_post([w EXCEPT !.hnd.reconnect_scheduled_ = FALSE,
                                         !.hnd.state_ = "BOOTSTRAPPING"])
    ELSE connectWS([w EXCEPT !.hnd.reconnect_scheduled_ = FALSE,
                             !.hnd.state_ = "CONNECTING"])

\* the wait handler connecting at once, bootstrap venue or not
reconnectCallback_noBootstrap(w, my_gen) ==
    IF ~w.hnd.running_ THEN w
    ELSE IF my_gen # "current" THEN w
    ELSE connectWS([w EXCEPT !.hnd.reconnect_scheduled_ = FALSE,
                             !.hnd.state_ = "CONNECTING"])

\* schedule_ws_reconnect_'s wait handler, the wait having expired
reconnectCallback(w, my_gen) ==
    IF ~w.hnd.running_ THEN w
    ELSE IF my_gen # "current" THEN w
    ELSE LET w1 == [w EXCEPT !.hnd.reconnect_scheduled_ = FALSE]
         IN IF w1.caps.requires_ws_bootstrap
            THEN bootstrapWS([w1 EXCEPT !.hnd.state_ = "BOOTSTRAPPING"])
            ELSE connectWS([w1 EXCEPT !.hnd.state_ = "CONNECTING"])

\* the 429/418 branch's wait handler, the wait having expired
retryCallback(w) ==
    IF ~w.hnd.running_ THEN w ELSE requestSnapshot(w)


(***************************************************************************)
(* The steps of the reactor.  The handler of an aborted operation and the  *)
(* handler of an expired wait are already queued, so they run before any   *)
(* completion that still waits for the network or for a timer (Flushed).   *)
(***************************************************************************)
Flushed ==
    /\ ws.resolve # "aborted" /\ ws.conn # "aborted" /\ ws.read # "aborted"
    /\ ws.write # "aborted" /\ ws.closeOp # "aborted" /\ ws.ping # "aborted"
    /\ ws.stale \cap {"sock", "write", "close"} = {}
    /\ ~rest.aborted
    /\ timer.ready = {}

Step(w) ==
    /\ book' = w.book /\ ctrl' = w.ctrl
    /\ hnd' = w.hnd /\ ws' = w.ws /\ rest' = w.rest /\ timer' = w.timer
    /\ ev' = w.g
    /\ UNCHANGED <<caps, cover>>

\* a completion: an aborted operation fails, a pending one waits its turn
Completes(op, ok) ==
    /\ op # "none"
    /\ op = "aborted" => ~ok
    /\ op # "aborted" => Flushed

\* the resolver serves its requests in order: the request of an earlier
\* connect() completes first
WsResolveDone ==
    \E ok \in BOOLEAN :
        /\ "resolve" \notin ws.stale
        /\ Completes(ws.resolve, ok)
        /\ Step(on_resolve(World("ws"), ok))

WsTcpConnectDone ==
    \E ok \in BOOLEAN :
        /\ ws.conn \in {"tcp", "aborted"}
        /\ Completes(ws.conn, ok)
        /\ Step(on_tcp_connect(World("ws"), ok))

WsTlsHandshakeDone ==
    \E ok \in BOOLEAN :
        /\ ws.conn = "tls"
        /\ Completes(ws.conn, ok)
        /\ Step(on_tls_handshake(World("ws"), ok))

WsHandshakeDone ==
    \E ok \in BOOLEAN :
        /\ ws.conn = "wshs"
        /\ Completes(ws.conn, ok)
        /\ Step(on_ws_handshake(World("ws"), ok))

WsWriteDone ==
    \E ok \in BOOLEAN :
        /\ Completes(ws.write, ok)
        /\ Step(on_write(World("ws"), ok))

WsCloseDone ==
    /\ Completes(ws.closeOp, FALSE)
    /\ Step(on_async_close(World("ws")))

WsDeadlineExpires ==
    /\ ws.deadline
    /\ Flushed
    /\ Step(on_connect_deadline(World("ws")))

WsPingTimer ==
    /\ ws.ping = "timer"
    /\ Flushed
    /\ Step(on_ping_timer(World("ws")))

WsPingDone ==
    \E ok \in BOOLEAN :
        /\ ws.ping \in {"op", "aborted"}
        /\ Completes(ws.ping, ok)
        /\ Step(on_ping(World("ws"), ok))

WsStaleDone ==
    \E kind \in ws.stale, ok \in BOOLEAN :
        /\ ok => kind = "resolve"
        /\ kind = "resolve" => Flushed
        /\ Step(on_stale(World("ws"), kind, ok))


\* the sequence ranges and checksums the venue puts on the wire
HSeqPairs == {<<0, 0>>, <<1, 1>>, <<1, 2>>, <<2, 2>>}

WireChecksums(levels) ==
    ChecksumsFor(IF caps.has_checksum THEN "venue" ELSE "nullptr",
                 applyIncrementUpdate(book, levels))

IncPayloads ==
    {[type |-> "inc", ok |-> TRUE, first |-> s[1], last |-> s[2], cs |-> c] :
        s \in HSeqPairs, c \in WireChecksums(IncLevels)}
      \cup {[type |-> "inc", ok |-> FALSE, first |-> 0, last |-> 0, cs |-> 0]}

SnapPayloads ==
    {[type |-> "snap", ok |-> TRUE, first |-> 0, last |-> l, cs |-> c] :
        l \in 0..1, c \in WireChecksums(SnapLevels)}
      \cup {[type |-> "snap", ok |-> FALSE, first |-> 0, last |-> 0, cs |-> 0]}

OtherPayloads ==
    {[type |-> t, ok |-> TRUE, first |-> 0, last |-> 0, cs |-> 0] :
        t \in {"other", "empty"}}

WsPayloads ==
    IncPayloads \cup OtherPayloads
      \cup (IF caps.ws_sends_snapshot THEN SnapPayloads ELSE {})

RestReplies ==
    {[ec |-> TRUE, status |-> 0, body |-> NoBody]}
      \cup {[ec |-> FALSE, status |-> s, body |-> NoBody] : s \in {418, 429, 500}}
      \cup {[ec |-> FALSE, status |-> 200, body |-> b] : b \in SnapPayloads}

\* the WS endpoints (host, port, target) a bootstrap response may name
BootstrapEndpoints == {"ws1", "ws2"}

BootstrapReplies ==
    {[ec |-> TRUE, status |-> 0, body |-> NoBootstrap]}
      \cup {[ec |-> FALSE, status |-> 200, body |-> NoBootstrap]}
      \cup {[ec |-> FALSE, status |-> 200,
             body |-> [ok |-> TRUE, ping_interval_ms |-> 1, ws |-> e]] :
                e \in BootstrapEndpoints}

WsReadDone ==
    /\ ws.read # "none"
    /\ \/ /\ Completes(ws.read, FALSE)
          /\ Step(on_read(World("ws"), "error", NoBody))
       \/ /\ Completes(ws.read, TRUE)
          /\ Step(on_read(World("ws"), "closed", NoBody))
       \/ /\ Completes(ws.read, TRUE)
          /\ \E p \in WsPayloads : Step(on_read(World("ws"), "msg", p))

\* RestClient::finish_: in_flight_ is cleared, then the callback runs
RestDone ==
    /\ rest.in_flight_
    /\ ~rest.aborted => Flushed
    /\ LET w == [World("rest") EXCEPT !.rest = RestInit]
       IN IF rest.cb = "snapshot"
          THEN \E reply \in RestReplies :
                  /\ rest.aborted => reply.ec
                  /\ Step(snapshotCallback([w EXCEPT !.g.status = reply.status],
                                           reply))
          ELSE \E reply \in BootstrapReplies :
                  /\ rest.aborted => reply.ec
                  /\ Step(bootstrapCallback(w, reply))

\* reconnect_timer_ expires: the wait's handler is queued
TimerExpires ==
    /\ timer.wait # NoWait
    /\ Flushed
    /\ Step([World("timer") EXCEPT !.timer.wait = NoWait,
                                           !.timer.ready = @ \cup {timer.wait}])

\* a queued wait handler runs
TimerRuns ==
    \E c \in timer.ready :
        LET w == [World("timer") EXCEPT !.timer.ready = @ \ {c}]
        IN Step(IF c.kind = "retry" THEN retryCallback(w)
                ELSE reconnectCallback(w, c.my_gen))

HandlerStart == \E w \in {start(World("start"))} : Step(w)

HandlerStop == \E w \in {stop(World("stop"))} : Step(w)

InitHandler ==
    /\ book = NOrderBook(MaxDepth)
    /\ ctrl = CtrlInit
    /\ caps \in {BinanceCaps, OKXCaps, BitgetCaps, KucoinCaps}
    /\ cover = NoCover
    /\ hnd = [HndInit EXCEPT !.wsSubscribeFrame =
                                IF caps = BinanceCaps THEN "" ELSE "subscribe"]
    /\ ws = WsInit
    /\ rest = RestInit
    /\ timer = TimerInit
    /\ ev = G("init")

NextHandler ==
    \/ HandlerStart \/ HandlerStop
    \/ WsResolveDone \/ WsTcpConnectDone \/ WsTlsHandshakeDone \/ WsHandshakeDone
    \/ WsReadDone \/ WsWriteDone \/ WsCloseDone \/ WsDeadlineExpires
    \/ WsPingTimer \/ WsPingDone \/ WsStaleDone
    \/ RestDone \/ TimerExpires \/ TimerRuns

SpecHandler == InitHandler /\ [][NextHandler]_vars


(***************************************************************************)
(* SpecConfig: a handler that is constructed and then configured.  Before  *)
(* the first successful init() there is no controller (controller_ is a    *)
(* null unique_ptr) and rt_.caps holds the defaults of VenueCaps; the book *)
(* and the controller fields of the model are placeholders until then.     *)
(* What a running handler without a controller does after start() is not   *)
(* followed beyond stop(): restartSync dereferences controller_.           *)
(***************************************************************************)
\* VenueId
Venues == {"BINANCE", "OKX", "BYBIT", "BITGET", "KUCOIN", "UNKNOWN"}

makeAdapter(v) ==
    CASE v = "BINANCE" -> "BinanceAdapter"
      [] v = "OKX" -> "OKXAdapter"
      [] v = "BITGET" -> "BitgetAdapter"
      [] v = "BYBIT" -> "BybitAdapter"
      [] v = "KUCOIN" -> "KucoinAdapter"
      [] OTHER -> "BinanceAdapter"

adapterCaps(a) ==
    CASE a = "BinanceAdapter" -> BinanceCaps
      [] a = "OKXAdapter" -> OKXCaps
      [] a = "BitgetAdapter" -> BitgetCaps
      [] a = "BybitAdapter" -> BybitCaps
      [] a = "KucoinAdapter" -> KucoinCaps
      [] OTHER -> NoCaps

\* init(cfg): the status, and the world after the call
init(w, venue, depthLevel) ==
    IF w.hnd.running_ THEN [status |-> "ERROR", w |-> w]
    ELSE IF depthLevel = 0 THEN [status |-> "ERROR", w |-> w]
    ELSE [status |-> "OK",
          w |-> [w EXCEPT !.caps = adapterCaps(makeAdapter(venue)),
                          !.book = NOrderBook(depthLevel),
                          !.ctrl = CtrlInit,
                          !.hnd.controller_ = TRUE,
                          !.hnd.rt_ws = "adapter",
                          !.hnd.wsSubscribeFrame =
                              IF makeAdapter(venue) = "BinanceAdapter"
                              THEN "" ELSE "subscribe",
                          !.hnd.buffer_ = <<>>,
                          !.hnd.state_ = "DISCONNECTED"]]

ConfigInit ==
    \E venue \in Venues, depthLevel \in 0..MaxDepth :
      \E out \in {init(World("initCall"), venue, depthLevel)} :
        /\ book' = out.w.book /\ ctrl' = out.w.ctrl /\ caps' = out.w.caps
        /\ hnd' = out.w.hnd
        /\ ev' = [op |-> "initCall", venue |-> venue, depthLevel |-> depthLevel,
                  status |-> out.status, wasRunning |-> hnd.running_]
        /\ UNCHANGED <<cover, ws, rest, timer>>

\* the WebSocket connection of a configured handler makes progress
ConfigConnects ==
    /\ hnd.controller_
    /\ (WsResolveDone \/ WsTcpConnectDone \/ WsTlsHandshakeDone \/ WsHandshakeDone)

InitConfig ==
    /\ book = NOrderBook(0)
    /\ ctrl = CtrlInit
    /\ caps = NoCaps
    /\ cover = NoCover
    /\ hnd = [HndInit EXCEPT !.controller_ = FALSE]
    /\ ws = WsInit
    /\ rest = RestInit
    /\ timer = TimerInit
    /\ ev = G("constructed")

NextConfig == ConfigInit \/ HandlerStart \/ HandlerStop \/ ConfigConnects

SpecConfig == InitConfig /\ [][NextConfig]_vars


(***************************************************************************)
(* SpecDrain: a handler with room for MaxDrain payloads that connects,     *)
(* buffers incrementals of several sequence numbers and drains them when   *)
(* the snapshot arrives (the REST reply for Binance, the WS snapshot for   *)
(* Bitget).                                                                *)
(***************************************************************************)
MaxDrain == 3

DrainSeqs == 1..MaxDrain

\* one incremental per sequence number, with the checksums the venue may put
\* on it, and one that does not parse
DrainPayloads ==
    {[type |-> "inc", ok |-> TRUE, first |-> n, last |-> n, cs |-> c] :
        n \in DrainSeqs, c \in WireChecksums(IncLevels)}
      \cup {[type |-> "inc", ok |-> FALSE, first |-> 0, last |-> 0, cs |-> 0]}

\* a text message read from the open connection
DrainMessage ==
    /\ Completes(ws.read, TRUE)
    /\ \E p \in DrainPayloads \cup (IF caps.ws_sends_snapshot THEN SnapPayloads ELSE {}) :
          Step(on_read(World("ws"), "msg", p))

InitDrain ==
    /\ book = NOrderBook(MaxDepth)
    /\ ctrl = CtrlInit
    /\ caps \in {BinanceCaps, BitgetCaps}
    /\ cover = NoCover
    /\ hnd = [HndInit EXCEPT !.max_buffer_ = MaxDrain,
                             !.wsSubscribeFrame =
                                IF caps = BinanceCaps THEN "" ELSE "subscribe"]
    /\ ws = WsInit
    /\ rest = RestInit
    /\ timer = TimerInit
    /\ ev = G("init")

NextDrain ==
    \/ HandlerStart
    \/ WsResolveDone \/ WsTcpConnectDone \/ WsTlsHandshakeDone \/ WsHandshakeDone
    \/ WsWriteDone \/ DrainMessage \/ RestDone

SpecDrain == InitDrain /\ [][NextDrain]_vars


(***************************************************************************)
(* SpecParse: BinanceAdapter's classification and parsing of a WS text,    *)
(* over the shapes a text can have.  The parser is declared noexcept and   *)
(* has no try block: an exception of the JSON library inside it ends the   *)
(* process in std::terminate.                                              *)
(***************************************************************************)
\* json: the text is not JSON, is JSON but not an object, or is an object;
\* e: the member "e"; U, u: the sequence members; b, a: the level arrays,
\* absent, with levels of two strings, or with levels of two numbers
FieldShapes == {"absent", "number", "string"}
LevelShapes == {"absent", "strings", "numbers"}

BinanceTexts ==
    [json : {"discarded", "other", "object"},
     e : {"absent", "other", "depthUpdate"},
     U : FieldShapes, u : FieldShapes, b : LevelShapes, a : LevelShapes]

\* the object a depth update of the venue is
WellFormed(msg) ==
    /\ msg.json = "object" /\ msg.e = "depthUpdate"
    /\ msg.U = "number" /\ msg.u = "number"
    /\ msg.b = "strings" /\ msg.a = "strings"

\* msg.find("depthUpdate") != npos: e of a text that is not JSON says whether
\* the words occur in it
BinanceAdapter_isIncremental(msg) == msg.e = "depthUpdate"

\* parseIncremental that tests the type of every member before reading it
BinanceAdapter_parseIncremental_typed(msg) ==
    IF WellFormed(msg) THEN "true" ELSE "false"

\* "true", "false", or "terminate" when get<>() or get_ref<>() throws
BinanceAdapter_parseIncremental(msg) ==
    IF msg.json = "discarded" THEN "false"
    ELSE IF msg.json # "object" \/ msg.e # "depthUpdate" THEN "false"
    ELSE IF "absent" \in {msg.U, msg.u, msg.b, msg.a} THEN "false"
    ELSE IF msg.U = "string" \/ msg.u = "string" THEN "terminate"
    ELSE IF msg.b = "numbers" \/ msg.a = "numbers" THEN "terminate"
    ELSE "true"

\* the steady-state branch of onWSMessage up to its "if (!ok) return"
ParseIncremental ==
    /\ \E msg \in BinanceTexts :
          ev' = [op |-> "parseIncremental", msg |-> msg,
                 isInc |-> BinanceAdapter_isIncremental(msg),
                 ok |-> IF BinanceAdapter_isIncremental(msg)
                        THEN BinanceAdapter_parseIncremental(msg) ELSE "false"]
    /\ UNCHANGED <<book, ctrl, caps, cover, io>>

InitParse ==
    /\ book = NOrderBook(MaxDepth)
    /\ ctrl = CtrlInit
    /\ caps = BinanceCaps
    /\ ev = NoEvent
    /\ cover = NoCover
    /\ IdleIO

NextParse == ParseIncremental

SpecParse == InitParse /\ [][NextParse]_vars


(***************************************************************************)
(* Properties of the feed handler                                          *)
(***************************************************************************)
\* C6: whenever the controller returns NeedResync to the running handler,
\* from onSnapshot or from onIncrement, the handler runs restartSync in that
\* step and is not left in WAIT_BRIDGE or SYNCED
C6_RestartOnNeedResync ==
    (ev.needResync /\ ev.wasRunning)
        => (ev.restarts >= 1 /\ hnd.state_ \notin {"WAIT_BRIDGE", "SYNCED"})

\* C7: while the handler is running, a close notification that a WsClient
\* completion handler delivers (a failure or a remote close, not the cancel()
\* of restartSync nor the close() of stop) makes the handler run restartSync
C7_CloseRestarts ==
    (ev.op = "ws" /\ ev.on_close >= 1 /\ ev.wasRunning) => ev.restarts >= 1

\* an incremental arrived in a buffering state while the buffer was full
Overflow ==
    /\ ev.op = "ws" /\ ev.wasRunning /\ ev.isInc /\ ev.full
    /\ \/ ev.from \in {"WAIT_REST_SNAPSHOT", "WAIT_WS_SNAPSHOT"}
       \/ ev.from = "WAIT_BRIDGE" /\ caps.sync_mode = "RestAnchored"

\* C9: the buffer never holds more than max_buffer_ payloads, and an
\* incremental that arrives in WAIT_REST_SNAPSHOT, WAIT_WS_SNAPSHOT or
\* RestAnchored WAIT_BRIDGE while the buffer is full is not enqueued: the
\* handler runs restartSync
C9_BoundedBuffer ==
    /\ Len(hnd.buffer_) <= hnd.max_buffer_
    /\ Overflow => /\ ~ev.enqueued
                   /\ ev.restarts >= 1
                   /\ hnd.buffer_ = <<>>
                   /\ hnd.state_ = "CONNECTING"

C9_Witness == Overflow /\ ev.from = "WAIT_WS_SNAPSHOT" /\ ev.restarts = 1


\* timers and I/O completions are fair: an outstanding operation completes
\* and an armed timer expires; start() and stop() are the caller's to make
FairHandler ==
    /\ WF_vars(WsResolveDone) /\ WF_vars(WsTcpConnectDone)
    /\ WF_vars(WsTlsHandshakeDone) /\ WF_vars(WsHandshakeDone)
    /\ WF_vars(WsReadDone) /\ WF_vars(WsWriteDone) /\ WF_vars(WsCloseDone)
    /\ WF_vars(WsDeadlineExpires) /\ WF_vars(WsStaleDone)
    /\ WF_vars(WsPingTimer) /\ WF_vars(WsPingDone)
    /\ WF_vars(RestDone) /\ WF_vars(TimerExpires) /\ WF_vars(TimerRuns)

SpecHandlerFair == SpecHandler /\ FairHandler

WsApiConnect == \E w \in {WsClient_connect(World("connect"))} : Step(w)

WsApiClose == \E w \in {WsClient_close(World("close"))} : Step(w)

WsApiCancel == \E w \in {WsClient_cancel(World("cancel"))} : Step(w)

\* the caller's texts are numbered in the order of its send_text calls
WsApiSendText ==
    /\ Len(ws.outbox_) < MaxOutbox
    /\ ws.sends < MaxSends
    /\ \E w \in {send_text([World("send_text") EXCEPT !.ws.sends = @ + 1,
                                                       !.g.text = ws.sends + 1],
                            ws.sends + 1)} : Step(w)

InitWs ==
    /\ book = NOrderBook(MaxDepth)
    /\ ctrl = CtrlInit
    /\ caps = BinanceCaps
    /\ cover = NoCover
    /\ hnd = HndInit
    /\ ws = [WsInit EXCEPT !.ping_interval_ = 1]
    /\ rest = RestInit
    /\ timer = TimerInit
    /\ ev = G("init")

NextWs ==
    \/ WsApiConnect \/ WsApiClose \/ WsApiCancel \/ WsApiSendText
    \/ WsResolveDone \/ WsTcpConnectDone \/ WsTlsHandshakeDone \/ WsHandshakeDone
    \/ WsReadDone \/ WsWriteDone \/ WsCloseDone \/ WsDeadlineExpires
    \/ WsPingTimer \/ WsPingDone \/ WsStaleDone

SpecWs == InitWs /\ [][NextWs]_vars

\* C10: in each connection lifetime, from one connect() to the next, on_close
\* is invoked exactly once, when the connection terminates: never twice, only
\* once the connection is closing and its socket is closed, and no lifetime
\* that was closing ends without it
C10_OnCloseOnce ==
    /\ ws.closes <= 1
    /\ ws.closes = 1 => (ws.closing_ /\ ws.sock = "closed")
    /\ ~ev.missed

(***************************************************************************)
(* The handler once stop() has been called                                 *)
(***************************************************************************)
\* C11: while the handler is stopped (after stop() and until the next
\* start()), no callback that runs (WS open, message or close, REST snapshot
\* or bootstrap completion, reconnect or retry timer) changes the sync state,
\* the buffer or the controller, makes a connection attempt or puts a REST
\* request in flight
C11_StoppedIsQuiet ==
    [][(~hnd.running_ /\ ~hnd'.running_)
          => /\ hnd'.state_ = hnd.state_
             /\ hnd'.buffer_ = hnd.buffer_
             /\ ctrl' = ctrl /\ book' = book
             /\ ev'.attempts = 0 /\ ev'.restarts = 0
             /\ rest'.in_flight_ => rest.in_flight_
             /\ ws'.resolve = "pending" => ws.resolve = "pending"]_vars

\* a queued wait handler has run on a stopped handler
C11_Witness ==
    /\ ev.op = "timer" /\ ~ev.wasRunning /\ ~hnd.running_
    /\ timer.wait = NoWait /\ timer.ready = {}
    /\ hnd.state_ = "DISCONNECTED"

C13_GapAccepted ==
    (/\ ev.op = "onIncrement" /\ caps.allow_seq_gap
     /\ ev.from \in {"WaitingBridge", "Synced"} /\ ev.rel = "ahead")
        => (/\ ev.action = "None" /\ ev.branch = "applied"
            /\ ctrl.expected_seq = ev.last + 1)

\* C14: for a venue whose caps declare has_checksum, an incremental that the
\* running handler hands to the controller in the steady state, that is
\* neither too old nor ahead and whose checksum differs from the checksum of
\* the book it leads to, makes the controller clear the book and return
\* NeedResync, and the handler runs restartSync
C14_MismatchRestarts ==
    (/\ caps.has_checksum /\ ev.op = "ws" /\ ev.wasRunning
     /\ ev.wire = "mismatch" /\ ev.branch \in {"applied", "checksum_mismatch"})
        => (/\ ev.needResync /\ ev.restarts >= 1
            /\ book.bids = <<>> /\ book.asks = <<>>)

SameObjects(s, t) ==
    /\ t.hnd = s.hnd /\ t.ctrl = s.ctrl /\ t.book = s.book
    /\ t.ws = s.ws /\ t.rest = s.rest /\ t.timer = s.timer

\* C20: stop() called in any handler state leaves the handler not running, in
\* DISCONNECTED, with an empty buffer and the controller in WaitingSnapshot
\* with last_seq 0 and an empty book; a second stop() called right after it
\* leaves exactly the same state
C20_StopIdempotent ==
    /\ ev.op = "stop"
          => /\ ~hnd.running_ /\ hnd.state_ = "DISCONNECTED" /\ hnd.buffer_ = <<>>
             /\ ctrl.state = "WaitingSnapshot" /\ ctrl.last_seq = 0
             /\ book.bids = <<>> /\ book.asks = <<>>
    /\ SameObjects(stop(World("stop")), stop(stop(World("stop"))))

\* stop() has been called on a running handler whose connection was open:
\* the graceful close is under way
C20_Witness ==
    /\ ev.op = "stop" /\ ev.wasRunning /\ ws.closeOp = "pending"
    /\ hnd.state_ = "DISCONNECTED" /\ ctrl = CtrlInit

(***************************************************************************)
(* md::RestClient on its own (SpecRest).  In SpecRest the variable rest     *)
(* holds the client's fields and its outstanding work:                     *)
(*   ops      the asynchronous operations started and not yet handled; an  *)
(*            operation is "pending", or has completed ("ok" / "err") and  *)
(*            its handler is queued on the strand.  Cancelling turns a     *)
(*            pending operation into "err"; a completed one is not touched *)
(*   deadline_, shutdown_deadline_   "armed" or "none"                     *)
(*   expired  the waits that expired and whose handlers are queued:        *)
(*            cancel() does not reach them                                 *)
(* host_ stands for the (host, port) pair of a request, and cb_ for the    *)
(* callback of the request, numbered in the order of the calls.  calls,    *)
(* accepted, prev, fired and g are history: how often each callback ran,   *)
(* the requests that were accepted, how the last finished request ended,   *)
(* whether a deadline handler ran for the request in flight while no error *)
(* was recorded for it, and what the step did.  req, on an operation, on   *)
(* an expired wait, in armedBy and in g, is history too: the number of the *)
(* request whose call or handler started the operation or armed the wait;  *)
(* the client itself keeps no such number.  It is recorded in SpecRestOwned *)
(* (numbered = TRUE) and is 0 everywhere in SpecRest.                      *)
(***************************************************************************)
MaxRequests == 2

Hosts == {"a", "b"}

SocketOps == {"tcp", "tls", "write", "read", "shutdown"}

\* what a step of the client did: the callback it ran (0: none), the error
\* code and socket state the callback saw, and how the request was started
RG(op) == [op |-> op, cb |-> 0, ec |-> "none", sock |-> "closed", fired |-> FALSE,
           accepted |-> FALSE, rejected |-> FALSE, reused |-> FALSE,
           timer |-> "none", req |-> 0]

NoPrev == [done |-> FALSE, ok |-> FALSE, keep_alive |-> FALSE, host |-> ""]

RestClientInit ==
    [in_flight_ |-> FALSE, shutting_down_ |-> FALSE, final_ec_ |-> "none",
     tcp_connected_ |-> FALSE, tls_handshook_ |-> FALSE,
     keep_alive_ |-> FALSE, server_keep_alive_ |-> FALSE,
     host_ |-> "", connected_host_ |-> "", last_http_status_ |-> 0, cb_ |-> 0,
     sock |-> "closed", ops |-> {}, deadline_ |-> "none",
     shutdown_deadline_ |-> "none", expired |-> {},
     armedBy |-> [deadline |-> 0, shutdown |-> 0], numbered |-> FALSE,
     calls |-> [i \in 1..MaxRequests |-> 0], accepted |-> {}, issued |-> 0,
     prev |-> NoPrev, fired |-> FALSE, g |-> RG("init")]

\* sock.cancel(): the pending socket operations complete with an error
socket_cancel(r) ==
    [r EXCEPT !.ops = {IF o.kind \in SocketOps /\ o.st = "pending"
                       THEN [o EXCEPT !.st = "err"] ELSE o : o \in @}]

\* resolver_.cancel()
RestClient_resolver_cancel(r) ==
    [r EXCEPT !.ops = {IF o.kind = "resolve" /\ o.st = "pending"
                       THEN [o EXCEPT !.st = "err"] ELSE o : o \in @}]

can_reuse_connection_(r) ==
    /\ r.keep_alive_
    /\ r.tcp_connected_ /\ r.tls_handshook_
    /\ r.host_ = r.connected_host_
    /\ r.sock = "open"

RestClient_close_socket_hard_(r) ==
    [socket_cancel(r) EXCEPT !.sock = "closed",
                             !.tcp_connected_ = FALSE, !.tls_handshook_ = FALSE,
                             !.connected_host_ = ""]

disarm_deadline_(r) == [r EXCEPT !.deadline_ = "none", !.armedBy.deadline = 0]

cancel_shutdown_deadline_(r) ==
    [r EXCEPT !.shutdown_deadline_ = "none", !.armedBy.shutdown = 0]

\* an asynchronous operation is started.  The range async_connect closes the
\* socket and opens it again; any other socket operation needs the socket
\* open and fails at once on a closed one
startOp(r, kind) ==
    IF kind = "tcp"
    THEN [socket_cancel(r) EXCEPT !.sock = "open",
                                  !.ops = @ \cup {[kind |-> "tcp", st |-> "pending",
                                                  req |-> r.g.req]}]
    ELSE [r EXCEPT !.ops = @ \cup {[kind |-> kind,
                                    st |-> IF kind = "resolve" \/ r.sock = "open"
                                           THEN "pending" ELSE "err",
                                    req |-> r.g.req]}]

\* the tail of finish_: the socket is closed unless the connection is kept,
\* then the callback runs with final_ec_
finishWith(r, cb, ec) ==
    [(IF r.keep_alive_ /\ r.server_keep_alive_ /\ ec = "none"
      THEN r ELSE RestClient_close_socket_hard_(r))
        EXCEPT !.calls[cb] = bump(@),
               !.prev = [done |-> TRUE, ok |-> (ec = "none"),
                         keep_alive |-> r.server_keep_alive_, host |-> r.host_],
               !.g.cb = cb, !.g.ec = ec, !.g.fired = r.fired,
               !.g.sock = IF r.keep_alive_ /\ r.server_keep_alive_ /\ ec = "none"
                          THEN r.sock ELSE "closed"]

\* finish_ without the in_flight_ exchange and with the callback left in place
RestClient_finish_twice(r) ==
    finishWith(cancel_shutdown_deadline_(disarm_deadline_(
                   [r EXCEPT !.in_flight_ = FALSE])),
               r.cb_, r.final_ec_)

RestClient_finish_(r) ==
    IF ~r.in_flight_ THEN r
    ELSE finishWith(cancel_shutdown_deadline_(disarm_deadline_(
                        [r EXCEPT !.in_flight_ = FALSE, !.cb_ = 0])),
                    r.cb_, r.final_ec_)

RestClient_do_tls_shutdown_(r) ==
    IF ~r.in_flight_ \/ r.shutting_down_ THEN r
    ELSE startOp([r EXCEPT !.shutting_down_ = TRUE, !.shutdown_deadline_ = "armed",
                           !.armedBy.shutdown = r.g.req],
                 "shutdown")

RestClient_fail_(r, ec) ==
    IF ~r.in_flight_ THEN r
    ELSE IF r.final_ec_ # "none" THEN r
    ELSE IF ~r.tcp_connected_ \/ ~r.tls_handshook_
    THEN RestClient_finish_(RestClient_close_socket_hard_([r EXCEPT !.final_ec_ = ec]))
    ELSE RestClient_do_tls_shutdown_([r EXCEPT !.final_ec_ = ec])

\* reset_per_request_state_(allow_reuse = true)
resetFields(r) ==
    cancel_shutdown_deadline_(disarm_deadline_(
        [r EXCEPT !.shutting_down_ = FALSE, !.final_ec_ = "none",
                  !.last_http_status_ = 0, !.server_keep_alive_ = FALSE]))

reset_per_request_state_(r) ==
    IF can_reuse_connection_(resetFields(r)) THEN resetFields(r)
    ELSE RestClient_close_socket_hard_(resetFields(r))

arm_deadline_(r) == [r EXCEPT !.deadline_ = "armed", !.armedBy.deadline = r.g.req]

\* the request once its per-request state is reset and the deadline armed
sendRequest(r) ==
    IF can_reuse_connection_(r) THEN startOp([r EXCEPT !.g.reused = TRUE], "write")
    ELSE startOp(r, "resolve")

\* in_flight_.exchange(true) left out: a request is accepted over another
RestClient_request_unguarded(r, host, valid, cb) ==
    IF ~valid
    THEN RestClient_finish_([r EXCEPT !.in_flight_ = TRUE, !.host_ = host, !.cb_ = cb,
                                      !.accepted = @ \cup {cb}, !.fired = FALSE,
                                      !.g.accepted = TRUE,
                                      !.final_ec_ = "invalid_argument"])
    ELSE sendRequest(arm_deadline_(reset_per_request_state_(
             [r EXCEPT !.in_flight_ = TRUE, !.host_ = host, !.cb_ = cb,
                       !.accepted = @ \cup {cb}, !.fired = FALSE,
                       !.g.accepted = TRUE])))

\* async_get and async_post: valid tells whether the target starts with '/'
RestClient_request(r, host, valid, cb) ==
    IF r.in_flight_
    THEN [r EXCEPT !.calls[cb] = bump(@), !.g.rejected = TRUE,
                   !.g.cb = cb, !.g.ec = "operation_in_progress", !.g.sock = r.sock]
    ELSE IF ~valid
    THEN RestClient_finish_([r EXCEPT !.in_flight_ = TRUE, !.host_ = host, !.cb_ = cb,
                                      !.accepted = @ \cup {cb}, !.fired = FALSE,
                                      !.g.accepted = TRUE,
                                      !.final_ec_ = "invalid_argument"])
    ELSE sendRequest(arm_deadline_(reset_per_request_state_(
             [r EXCEPT !.in_flight_ = TRUE, !.host_ = host, !.cb_ = cb,
                       !.accepted = @ \cup {cb}, !.fired = FALSE,
                       !.g.accepted = TRUE])))

\* the handler of do_http_read_ on a response with this status and keep-alive
on_http_read(r, status, ka) ==
    IF r.keep_alive_ /\ ka /\ status >= 200 /\ status < 300
    THEN RestClient_finish_(r)
    ELSE RestClient_do_tls_shutdown_(r)

\* the completion handlers of the request chain
on_rest_op(r, kind, ok, status, ka) ==
    IF kind = "shutdown"
    THEN RestClient_finish_(
             [cancel_shutdown_deadline_(r)
                 EXCEPT !.final_ec_ = IF ~ok /\ @ = "none" THEN "error" ELSE @])
    ELSE IF ~ok THEN RestClient_fail_(r, "error")
    ELSE IF kind = "resolve" THEN startOp(r, "tcp")
    ELSE IF kind = "tcp" THEN startOp([r EXCEPT !.tcp_connected_ = TRUE], "tls")
    ELSE IF kind = "tls"
    THEN startOp([r EXCEPT !.tls_handshook_ = TRUE, !.connected_host_ = r.host_],
                 "write")
    ELSE IF kind = "write" THEN startOp(r, "read")
    ELSE on_http_read([disarm_deadline_(r)
                          EXCEPT !.last_http_status_ = status,
                                 !.server_keep_alive_ = ka,
                                 !.final_ec_ = IF status >= 200 /\ status < 300
                                               THEN "none" ELSE "protocol_error"],
                      status, ka)

\* arm_deadline_'s wait handler, the wait having expired
on_deadline(r) ==
    RestClient_fail_(socket_cancel(RestClient_resolver_cancel(
                         [r EXCEPT !.fired = @ \/ (r.in_flight_ /\ r.final_ec_ = "none"),
                                   !.g.timer = "deadline"])),
                     "timed_out")

\* arm_shutdown_deadline_'s wait handler, the wait having expired
on_shutdown_deadline(r) ==
    IF ~r.in_flight_ THEN r
    ELSE RestClient_finish_(
             [r EXCEPT !.fired = @ \/ r.final_ec_ = "none", !.g.timer = "shutdown",
                       !.final_ec_ = IF @ = "none" THEN "timed_out" ELSE @])

(***************************************************************************)
(* SpecRest: requests from the application, completions from the network   *)
(* and the two deadlines                                                   *)
(***************************************************************************)
RestStep(r) ==
    /\ rest' = r
    /\ ev' = r.g
    /\ UNCHANGED <<book, ctrl, caps, cover, hnd, ws, timer>>

RestApiRequest ==
    \E host \in Hosts, valid \in BOOLEAN :
        /\ rest.issued < MaxRequests
        /\ RestStep(RestClient_request([rest EXCEPT !.g = RG("request"),
                                                    !.g.req = IF rest.numbered
                                                              THEN rest.issued + 1
                                                              ELSE 0,
                                                    !.issued = @ + 1],
                                       host, valid, rest.issued + 1))

\* the network completes a pending operation: its handler is queued
RestOpCompletes ==
    \E o \in rest.ops, res \in {"ok", "err"} :
        /\ o.st = "pending"
        /\ RestStep([rest EXCEPT !.g = RG("completes"),
                                 !.ops = (@ \ {o}) \cup {[o EXCEPT !.st = res]}])

\* a queued completion handler runs
RestOpRuns ==
    \E o \in rest.ops, status \in {200, 500}, ka \in BOOLEAN :
        /\ o.st # "pending"
        /\ RestStep(on_rest_op([rest EXCEPT !.g = RG(o.kind), !.g.req = o.req,
                                            !.ops = @ \ {o}],
                               o.kind, o.st = "ok", status, ka))

\* a deadline expires: its handler is queued
RestTimerExpires ==
    \/ /\ rest.deadline_ = "armed"
       /\ RestStep([rest EXCEPT !.g = RG("expires"), !.deadline_ = "none",
                                !.armedBy.deadline = 0,
                                !.expired = @ \cup {[t |-> "deadline",
                                                     req |-> rest.armedBy.deadline]}])
    \/ /\ rest.shutdown_deadline_ = "armed"
       /\ RestStep([rest EXCEPT !.g = RG("expires"), !.shutdown_deadline_ = "none",
                                !.armedBy.shutdown = 0,
                                !.expired = @ \cup {[t |-> "shutdown",
                                                     req |-> rest.armedBy.shutdown]}])

\* a queued deadline handler runs
RestTimerRuns ==
    \E t \in rest.expired :
        RestStep(IF t.t = "deadline"
                 THEN on_deadline([rest EXCEPT !.g = RG("timer"), !.g.req = t.req,
                                               !.expired = @ \ {t}])
                 ELSE on_shutdown_deadline([rest EXCEPT !.g = RG("timer"),
                                                        !.g.req = t.req,
                                                        !.expired = @ \ {t}]))

InitRest ==
    /\ book = NOrderBook(MaxDepth)
    /\ ctrl = CtrlInit
    /\ caps = NoCaps
    /\ cover = NoCover
    /\ hnd = HndInit
    /\ ws = WsInit
    /\ timer = TimerInit
    /\ \E ka \in BOOLEAN : rest = [RestClientInit EXCEPT !.keep_alive_ = ka]
    /\ ev = RG("init")

NextRest ==
    \/ RestApiRequest
    \/ RestOpCompletes \/ RestOpRuns
    \/ RestTimerExpires \/ RestTimerRuns

SpecRest == InitRest /\ [][NextRest]_vars

\* SpecRest with the owner of every operation and wait recorded
InitRestOwned ==
    /\ book = NOrderBook(MaxDepth)
    /\ ctrl = CtrlInit
    /\ caps = NoCaps
    /\ cover = NoCover
    /\ hnd = HndInit
    /\ ws = WsInit
    /\ timer = TimerInit
    /\ \E ka \in BOOLEAN :
          rest = [RestClientInit EXCEPT !.keep_alive_ = ka, !.numbered = TRUE]
    /\ ev = RG("init")

SpecRestOwned == InitRestOwned /\ [][NextRest]_vars

\* every completion and every expired wait is eventually handled; the
\* application is not obliged to issue requests
FairRest ==
    /\ WF_vars(RestOpCompletes) /\ WF_vars(RestOpRuns)
    /\ WF_vars(RestTimerExpires) /\ WF_vars(RestTimerRuns)

SpecRestFair == SpecRest /\ FairRest


\* the callback of every accepted request has run once when the request is
\* over, and not at all while it is in flight
CallbackCounts ==
    \A id \in rest.accepted :
        rest.calls[id] = IF rest.in_flight_ /\ rest.cb_ = id THEN 0 ELSE 1

\* C16: every request accepted by RestClient has its callback invoked exactly
\* once, whatever the interleaving of completions, failures, request-deadline
\* expiry, TLS-shutdown completion and shutdown-deadline expiry: never twice,
\* and a request in flight is eventually completed.
C16_CallbackOnce ==
    /\ []CallbackCounts
    /\ rest.in_flight_ ~> ~rest.in_flight_

\* both requests were accepted and are over; the second one met its request
\* deadline and was completed by the handler of the TLS shutdown
C16_Witness ==
    /\ rest.accepted = {1, 2}
    /\ rest.calls[1] = 1 /\ rest.calls[2] = 1
    /\ ev.cb = 2 /\ ev.op = "shutdown" /\ ev.fired
    /\ ~rest.in_flight_


\* the fields of the request in flight and of its connection
InFlightRequest(r) ==
    [in_flight_ |-> r.in_flight_, host_ |-> r.host_, cb_ |-> r.cb_,
     final_ec_ |-> r.final_ec_, shutting_down_ |-> r.shutting_down_,
     last_http_status_ |-> r.last_http_status_,
     server_keep_alive_ |-> r.server_keep_alive_,
     tcp_connected_ |-> r.tcp_connected_, tls_handshook_ |-> r.tls_handshook_,
     connected_host_ |-> r.connected_host_, sock |-> r.sock, ops |-> r.ops,
     deadline_ |-> r.deadline_, shutdown_deadline_ |-> r.shutdown_deadline_,
     expired |-> r.expired]

\* C17: a RestClient has at most one request in flight: a request issued
\* while another one is in flight is not accepted, its own callback runs once
\* with operation_in_progress, and the request in flight keeps its target,
\* its callback, its operations, its deadlines and its recorded outcome.
C17_OneInFlight ==
    [][(ev'.op = "request" /\ rest.in_flight_)
          => /\ ev'.rejected /\ ~ev'.accepted
             /\ ev'.cb = rest'.issued /\ ev'.ec = "operation_in_progress"
             /\ rest'.calls[ev'.cb] = 1
             /\ rest'.accepted = rest.accepted
             /\ \A id \in rest.accepted : rest'.calls[id] = rest.calls[id]
             /\ InFlightRequest(rest') = InFlightRequest(rest)]_vars

\* the second request was rejected while the first one was waiting for its
\* response: the first callback has not run, the second has, once
C17_Witness ==
    /\ ev.op = "request" /\ ev.rejected /\ ev.cb = 2
    /\ rest.in_flight_ /\ rest.cb_ = 1 /\ rest.accepted = {1}
    /\ \E o \in rest.ops : o.kind = "read" /\ o.st = "pending"
    /\ rest.calls[1] = 0 /\ rest.calls[2] = 1


\* C18: if the request deadline or the shutdown deadline of an in-flight REST
\* request fires, the callback of the request is completed with a timeout
\* error code.  The deadline handlers counted here are those that ran while
\* the request was in flight and no error was recorded for it.
C18_DeadlineIsTimeout ==
    (ev.cb # 0 /\ ~ev.rejected /\ ev.fired) => ev.ec = "timed_out"


\* keep-alive is enabled and the request that finished last got a response
\* advertising keep-alive, ended without error and went to this host and port
ReuseExpected(r, host) ==
    /\ r.keep_alive_
    /\ r.prev.done /\ r.prev.keep_alive /\ r.prev.ok
    /\ r.prev.host = host

\* C19: a request that is accepted and sent reuses the existing connection,
\* skipping resolve, connect and TLS handshake, if and only if keep-alive is
\* enabled, the previous response advertised keep-alive, the previous request
\* finished without error and host and port are unchanged; and when a request
\* finishes with an error or a non-2xx status the socket is hard-closed
\* before its callback runs.
C19_ReuseIff ==
    [][/\ (ev'.op = "request" /\ ev'.accepted /\ ev'.cb = 0)
            => (ev'.reused <=> ReuseExpected(rest, rest'.host_))
       /\ (ev'.cb # 0 /\ ~ev'.rejected /\ ev'.ec # "none")
            => (ev'.sock = "closed" /\ ~rest'.tcp_connected_ /\ ~rest'.tls_handshook_)]_vars


\* the levels of a side without the level at price p
Without(vec, p) == SelectSeq(vec, LAMBDA l : l.priceTick # p)

\* a full side that does not hold price p, p strictly better than its worst
DropsWorst(vec, S, p, depth) ==
    /\ Len(vec) = depth
    /\ \A i \in 1..Len(vec) : vec[i].priceTick # p
    /\ comp(S, p, vec[Len(vec)].priceTick)

\* C22 as stated: for every book, side, price p and quantity q > 0,
\* update(side, (p, q)) followed by update(side, (p, 0)) leaves the book
\* equal to the original except that no level at price p is present; every
\* other level, the worst level of a full side included, is unchanged.
C22_Original ==
    ev.op = "update_delete"
        => /\ sideOf(book, ev.side) = Without(ev.before, ev.level.priceTick)
           /\ sideOf(book, IF ev.side = "BID" THEN "ASK" ELSE "BID") = ev.other

\* C22 (amended): update(side, (p, q)) followed by update(side, (p, 0)), q > 0,
\* leaves no level at price p and leaves the other side alone.  The levels of
\* the side at other prices are unchanged, except that when the side was
\* full, did not hold p and p is strictly better than its worst level, the
\* worst level is dropped by the insertion and is not restored by the delete.
C22_UpdateThenDelete ==
    ev.op = "update_delete"
        => /\ sideOf(book, ev.side) =
                 IF DropsWorst(ev.before, ev.side, ev.level.priceTick, book.depth)
                 THEN pop_back(ev.before)
                 ELSE Without(ev.before, ev.level.priceTick)
           /\ sideOf(book, IF ev.side = "BID" THEN "ASK" ELSE "BID") = ev.other

\* a full side took a new, better price and lost its worst level for good
C22_Witness ==
    /\ ev.op = "update_delete"
    /\ DropsWorst(ev.before, ev.side, ev.level.priceTick, book.depth)
    /\ book.depth = MaxDepth
    /\ Len(sideOf(book, ev.side)) = book.depth - 1


\* the last update call was made with a non-zero quantity at a price the
\* side did not hold, on a side that already held depth levels
FullSideNewPrice ==
    /\ ev.op = "update"
    /\ ev.level.quantityLot # 0
    /\ Len(ev.before) = book.depth
    /\ \A i \in 1..Len(ev.before) : ev.before[i].priceTick # ev.level.priceTick

\* C30: when a side already holds depth levels and update is called with a
\* non-zero quantity at a price not present: a price strictly better than
\* the worst level is inserted at its sorted position and the previously
\* worst level is dropped; any other price is ignored and the side is
\* unchanged.
C30_DepthEdge ==
    FullSideNewPrice =>
        IF comp(ev.side, ev.level.priceTick, ev.before[Len(ev.before)].priceTick)
        THEN /\ Len(sideOf(book, ev.side)) = book.depth
             /\ \E i \in 1..book.depth : sideOf(book, ev.side)[i] = ev.level
             /\ Without(sideOf(book, ev.side), ev.level.priceTick) = pop_back(ev.before)
             /\ \A i, j \in 1..book.depth :
                    i < j => comp(ev.side, sideOf(book, ev.side)[i].priceTick,
                                           sideOf(book, ev.side)[j].priceTick)
        ELSE sideOf(book, ev.side) = ev.before

\* scenario S6 at depth 2: bids [2, 1], bid 3 gives [3, 2]
C30_Witness ==
    /\ FullSideNewPrice
    /\ ev.side = "BID" /\ book.depth = 2
    /\ ev.before[1].priceTick = 2 /\ ev.before[2].priceTick = 1
    /\ ev.level.priceTick = 3
    /\ book.bids[1].priceTick = 3 /\ book.bids[2] = ev.before[1]


\* the last call was an onIncrement on a controller in WaitingBridge or
\* Synced with an incremental that carries sequence information
SequencedIncrement ==
    /\ ev.op = "onIncrement"
    /\ ev.from \in {"WaitingBridge", "Synced"}
    /\ ev.last # 0

\* every level applied, the counters moved to the incremental, Synced
AppliedAndAdvanced ==
    /\ ev.action = "None"
    /\ ev.appliedAll
    /\ ctrl = [state |-> "Synced", last_seq |-> ev.last, expected_seq |-> ev.last + 1]

\* C28 as stated: with required = expected_seq, last_seq < required returns
\* None and leaves book, last_seq, expected_seq and state unchanged;
\* first_seq > required returns NeedResync without applying any level;
\* otherwise every level is applied, last_seq becomes inc.last_seq,
\* expected_seq becomes last_seq + 1 and WaitingBridge becomes Synced.
C28_Original ==
    SequencedIncrement =>
        IF ev.tooOld THEN ev.action = "None" /\ ev.unchanged
        ELSE IF ev.firstRel # "within" THEN ev.action = "NeedResync" /\ ev.unchanged
        ELSE AppliedAndAdvanced

\* C28 (amended): as C28 for the too-old and the gap case (the boundaries
\* last_seq = expected_seq - 1 and first_seq = expected_seq + 1 included);
\* otherwise every level is applied and, when no checksum function is
\* configured or the incremental's checksum matches the resulting book,
\* last_seq becomes inc.last_seq, expected_seq becomes last_seq + 1 and the
\* state is Synced.  When a checksum function is configured and the checksum
\* is missing or does not match, the call returns NeedResync with the book
\* cleared, the counters 0 and the state WaitingSnapshot.
C28_SequenceRule ==
    SequencedIncrement =>
        IF ev.tooOld THEN ev.action = "None" /\ ev.unchanged
        ELSE IF ev.firstRel # "within" THEN ev.action = "NeedResync" /\ ev.unchanged
        ELSE IF ev.checksum \in {"missing", "mismatch"}
        THEN /\ ev.action = "NeedResync"
             /\ book.bids = <<>> /\ book.asks = <<>> /\ ctrl = CtrlInit
        ELSE AppliedAndAdvanced

\* the boundary first_seq = expected_seq + 1 met a Synced controller that
\* holds a book: a gap, nothing applied
C28_Witness ==
    /\ SequencedIncrement /\ ev.from = "Synced"
    /\ ~ev.tooOld /\ ev.firstRel = "next"
    /\ ev.action = "NeedResync" /\ ev.branch = "gap"
    /\ ctrl.state = "Synced" /\ book.bids # <<>>


\* the non-empty levels of a level list
NonEmptyLevels(levels) ==
    {levels[i] : i \in {k \in 1..Len(levels) : ~isEmpty(levels[k])}}

\* vec holds the best d of the non-empty levels, best first
HoldsBest(vec, levels, S, d) ==
    /\ Len(vec) = IF Cardinality(NonEmptyLevels(levels)) < d
                  THEN Cardinality(NonEmptyLevels(levels)) ELSE d
    /\ \A i \in 1..Len(vec) : vec[i] \in NonEmptyLevels(levels)
    /\ \A i, j \in 1..Len(vec) : i < j => comp(S, vec[i].priceTick, vec[j].priceTick)
    /\ \A l \in NonEmptyLevels(levels) :
           (\A i \in 1..Len(vec) : vec[i] # l)
               => \A i \in 1..Len(vec) : comp(S, vec[i].priceTick, l.priceTick)

\* C29: after onSnapshot(snap, kind) succeeds from any prior controller
\* state, the book holds exactly the snapshot's non-empty levels (the best
\* depth per side), last_seq equals snap.last_update_id, expected_seq equals
\* last_seq + 1, and the state is Synced for WsAuthoritative and
\* WaitingBridge for RestAnchored; nothing of the previous book or sequence
\* state survives.
C29_SnapshotBaseline ==
    (ev.op = "onSnapshot" /\ ev.action = "None")
        => /\ HoldsBest(book.bids, ev.levels.bids, "BID", book.depth)
           /\ HoldsBest(book.asks, ev.levels.asks, "ASK", book.depth)
           /\ ctrl.last_seq = ev.last
           /\ ctrl.expected_seq = ev.last + 1
           /\ ctrl.state = IF ev.kind = "WsAuthoritative" THEN "Synced"
                           ELSE "WaitingBridge"

\* a Synced controller holding a book took a snapshot that is unsorted and
\* longer than the depth: the best two levels per side are the book
C29_Witness ==
    /\ ev.op = "onSnapshot" /\ ev.action = "None"
    /\ ev.from = "Synced" /\ ~ev.wasEmpty
    /\ Len(ev.levels.bids) = 3
    /\ book.bids = <<Level(3, 2), Level(2, 1)>>
    /\ book.asks = <<Level(2, 2), Level(3, 1)>>
    /\ ctrl.last_seq = ev.last


\* every level of vec is a non-empty level of the target
LevelsOf(vec, levels) == \A i \in 1..Len(vec) : vec[i] \in NonEmptyLevels(levels)

\* C23 as stated: applying snapshot A through the controller and then
\* contiguous incrementals that set every price present in A or in the next
\* snapshot B to its quantity in B (0 when absent from B) yields a book equal
\* to B, up to depth truncation: each side holds the best depth levels of B.
C23_Original ==
    ev.op = "mirror"
        => /\ ev.action = "None"
           /\ HoldsBest(book.bids, ev.target.bids, "BID", book.depth)
           /\ HoldsBest(book.asks, ev.target.asks, "ASK", book.depth)

\* C23 (amended): after snapshot A and contiguous incrementals that set every
\* price present in A or in B to its quantity in B, every level of the book
\* is a level of B; and when on each side the levels with quantity 0 are
\* delivered before the levels with a quantity, each side of the book holds
\* the best depth levels of B.
C23_MirrorRoundTrip ==
    ev.op = "mirror"
        => /\ ev.action = "None"
           /\ ctrl = [state |-> "Synced", last_seq |-> 3, expected_seq |-> 4]
           /\ LevelsOf(book.bids, ev.target.bids)
           /\ LevelsOf(book.asks, ev.target.asks)
           /\ ev.deletesFirst
                 => /\ HoldsBest(book.bids, ev.target.bids, "BID", book.depth)
                    /\ HoldsBest(book.asks, ev.target.asks, "ASK", book.depth)

\* B has more bid levels than the depth and other asks than A; the deletes
\* came first and the book is the best two levels of B on either side
C23_Witness ==
    /\ ev.op = "mirror" /\ ev.deletesFirst /\ ev.action = "None"
    /\ Len(ev.target.bids) = 3
    /\ book.bids = <<Level(3, 2), Level(2, 1)>>
    /\ book.asks = <<Level(2, 1), Level(3, 2)>>
    /\ caps.checksum_fn # "nullptr"

\* C21: a configuration error (unknown venue, depth 0) is surfaced by init as
\* an ERROR status, and a handler whose init did not succeed refuses to
\* start: it opens no connection and does not enter CONNECTING or
\* BOOTSTRAPPING
C21_ConfigErrorRefused ==
    /\ (ev.op = "initCall" /\ ~ev.wasRunning
            /\ (ev.venue = "UNKNOWN" \/ ev.depthLevel = 0))
          => ev.status = "ERROR"
    /\ ~hnd.controller_
          => /\ hnd.state_ \notin {"CONNECTING", "BOOTSTRAPPING"}
             /\ ws.resolve = "none" /\ ws.conn = "none"
             /\ ~rest.in_flight_

\* C27: when applying an incremental leaves the book crossed (best bid price
\* >= best ask price), it is treated as a protocol error: the controller
\* returns NeedResync, on which the handler runs restartSync
C27_CrossedIsResync ==
    (ev.op = "onIncrement" /\ ~ev.crossedBefore /\ crossed(book))
        => ev.action = "NeedResync"

Increasing(s) == \A i, j \in 1..Len(s) : i < j => s[i] < s[j]

Texts(s) == {s[i] : i \in 1..Len(s)}

\* never two writes of a connection outstanding; the texts written and the
\* texts queued are in the order of the send_text calls, none twice
OneWriteInOrder ==
    /\ ~ev.overlap
    /\ ws.write # "none" => ws.outbox_ # <<>>
    /\ Increasing(ws.wire \o ws.outbox_)

\* C24 as stated: in WsClient at most one write is in flight at any time,
\* queued texts are written in the order send_text was called and each at
\* most once, and a text passed to send_text before the connection is open is
\* enqueued and written once the connection opens.
C24_Original ==
    /\ OneWriteInOrder
    /\ (ev.op = "send_text" /\ ~ws.opened_) => ev.text \in Texts(ws.outbox_)
    /\ (ws.opened_ /\ ~ws.closing_)
          => /\ \A t \in 1..ws.sends : t \in Texts(ws.wire \o ws.outbox_)
             /\ ws.outbox_ # <<>> => (ws.write # "none" \/ "write" \in ws.stale)

\* C24 (amended): at most one write of a connection is in flight at any time;
\* the texts accepted since connect() are written in the order send_text was
\* called, each at most once; a text passed to send_text after connect(),
\* while the connection is neither open nor closing, is enqueued, and when the
\* connection opens every text passed since connect() is written or queued
\* with a write started.  A text passed while the client is closing is
\* dropped, and connect() discards the texts still queued.
C24_OutboxFifo ==
    /\ OneWriteInOrder
    /\ Texts(ws.wire \o ws.outbox_) \subseteq (ws.base + 1)..ws.sends
    /\ (ev.op = "send_text" /\ ~ws.closing_) => ev.text \in Texts(ws.outbox_)
    /\ (ev.op = "send_text" /\ ev.text \notin Texts(ws.wire \o ws.outbox_))
          => ws.closing_
    /\ (ws.opened_ /\ ~ws.closing_)
          => /\ \A t \in (ws.base + 1)..ws.sends : t \in Texts(ws.wire \o ws.outbox_)
             /\ ws.outbox_ # <<>> => (ws.write # "none" \/ "write" \in ws.stale)

\* two texts were passed before the connection opened; the first is written,
\* the second is being written
C24_Witness ==
    /\ ws.opened_ /\ ~ws.closing_
    /\ ws.base = 0 /\ ws.sends = 2
    /\ ws.wire = <<1>> /\ ws.outbox_ = <<2>> /\ ws.write = "pending"
    /\ ev.op = "ws"

\* C25: if a WS connection attempt does not reach the open state before the
\* connect deadline expires, the client hard-closes the socket and fires
\* on_close, and a running handler responds by restarting
C25_ConnectDeadline ==
    ev.timeout = "attempt"
        => /\ ~ws.opened_ /\ ws.closing_ /\ ws.sock = "closed"
           /\ ev.on_close = 1
           /\ ev.wasRunning => ev.restarts >= 1

\* C26: for a venue with requires_ws_bootstrap, every WS connection attempt
\* (the initial one and every reconnect) is made by the callback of a
\* bootstrap POST that completed without an error and was parsed, with the
\* endpoint of that response; when the bootstrap request fails or cannot be
\* parsed, no WS connect is made and the running handler restarts
C26_BootstrapFirst ==
    caps.requires_ws_bootstrap
        => /\ ev.connectTo # "none"
                => /\ ev.op = "rest" /\ ev.bootstrap \in BootstrapEndpoints
                   /\ ev.connectTo = ev.bootstrap
                   /\ ws.host_ = ev.bootstrap /\ ws.resolve = "pending"
           /\ ev.bootstrap = "failed"
                => /\ ev.connectTo = "none"
                   /\ ev.wasRunning => ev.restarts >= 1
           /\ ev.op \in {"start", "timer"} => ev.connectTo = "none"

\* a reconnect: the handler had connected to the endpoint of an earlier
\* response and now connects to the endpoint of this one
C26_Witness ==
    /\ caps.requires_ws_bootstrap /\ ev.wasRunning
    /\ ev.op = "rest" /\ ev.bootstrap = "ws2" /\ ev.connectTo = "ws2"
    /\ ws.host_ = "ws2" /\ ws.resolve = "pending"
    /\ "resolve" \in ws.stale

(***************************************************************************)
(* Properties of restartSync                                               *)
(***************************************************************************)
\* the state restartSync is to leave behind on a running handler
Restarted ==
    /\ hnd.buffer_ = <<>>
    /\ ctrl = CtrlInit /\ book.bids = <<>> /\ book.asks = <<>>
    /\ hnd.state_ = "CONNECTING"
    /\ ws.closing_ /\ ws.sock = "closed"
    /\ timer.wait = [kind |-> "reconnect", my_gen |-> "current"]
    /\ \A c \in timer.ready : c.kind = "reconnect" => c.my_gen = "older"

\* C31: a step in which restartSync ran on a running handler ends with an
\* empty buffer, a reset controller (WaitingSnapshot, last_seq 0, empty
\* book), state CONNECTING, the WS connection force-closed and exactly one
\* reconnect pending on the timer; a call on a handler that is not running
\* changes nothing
C31_RestartSync ==
    [][/\ ev'.restarts >= 1 => Restarted'
       /\ ev'.idle => UNCHANGED <<book, ctrl, hnd, ws, timer>>]_vars

(***************************************************************************)
(* Properties of onWSOpen                                                  *)
(***************************************************************************)
\* C32: a step in which onWSOpen ran on a running handler has sent the
\* subscribe frame if it is not empty; for a RestAnchored venue the handler is
\* then in WAIT_REST_SNAPSHOT with exactly one snapshot GET issued and in
\* flight, for a WsAuthoritative venue it is in WAIT_WS_SNAPSHOT and issued no
\* REST request
C32_OnOpen ==
    ev.open
        => /\ hnd.wsSubscribeFrame # "" => ev.subscribe = "sent"
           /\ caps.sync_mode = "RestAnchored"
                => /\ hnd.state_ = "WAIT_REST_SNAPSHOT"
                   /\ ev.gets = 1 /\ ~ev.busy
                   /\ rest.in_flight_ /\ rest.cb = "snapshot"
           /\ caps.sync_mode # "RestAnchored"
                => /\ hnd.state_ = "WAIT_WS_SNAPSHOT"
                   /\ ev.gets = 0 /\ ev.posts = 0

(***************************************************************************)
(* Properties of the mid-stream re-baseline                                *)
(***************************************************************************)
\* the book and the counters of the controller are those of the snapshot with
\* this lastUpdateId
BaselineOf(id) ==
    /\ book = snapshotBook(book, SnapLevels.bids, SnapLevels.asks)
    /\ ctrl.last_seq = id /\ ctrl.expected_seq = id + 1

Parses(p) == isIncremental(p) /\ p.ok

\* C34: a drain hands the buffered payloads that parse to the controller in
\* arrival order, each at most once, and ends with an empty buffer; it stops
\* at the first payload for which the controller returns NeedResync, and then
\* restartSync has dropped the remaining payloads and reset the controller, so
\* that none of them is applied; otherwise every payload that parses was fed
C34_DrainFifo ==
    ev.drain
        => /\ Len(ev.fed) <= Len(SelectSeq(ev.drained, Parses))
           /\ ev.fed = SubSeq(SelectSeq(ev.drained, Parses), 1, Len(ev.fed))
           /\ Len(ev.acts) = Len(ev.fed)
           /\ \A i \in 1..(Len(ev.acts) - 1) : ev.acts[i] # "NeedResync"
           /\ hnd.buffer_ = <<>>
           /\ IF ev.acts # <<>> /\ ev.acts[Len(ev.acts)] = "NeedResync"
              THEN /\ ev.restarts >= 1 /\ hnd.state_ = "CONNECTING"
                   /\ ctrl = CtrlInit /\ book.bids = <<>> /\ book.asks = <<>>
              ELSE ev.fed = SelectSeq(ev.drained, Parses)

\* a drain of three payloads that stops at the second: the first was applied,
\* the second is a gap, the third was dropped
C34_Witness ==
    /\ ev.drain /\ Len(ev.drained) = 3 /\ Len(ev.fed) = 2
    /\ ev.drained[1].last # ev.drained[2].last
    /\ Parses(ev.drained[3])
    /\ ev.acts = <<"None", "NeedResync">>
    /\ ev.restarts = 1

(***************************************************************************)
(* Properties of malformed messages                                        *)
(***************************************************************************)
\* C35: a WS text that is not a well-formed incremental is discarded: the
\* classification or the parser reports it as a boolean, without throwing
C35_MalformedDiscarded ==
    (ev.op = "parseIncremental" /\ ~WellFormed(ev.msg)) => ev.ok = "false"

\* the handler's part of C35: the step that takes a malformed text changes
\* neither the handler's state nor the controller, and restarts nothing
C35_HandlerUnchanged ==
    [][ev'.malformed =>
          /\ hnd'.state_ = hnd.state_ /\ ctrl' = ctrl /\ book' = book
          /\ ev'.restarts = 0]_vars

(***************************************************************************)
(* Properties of the controller while it waits for a snapshot              *)
(***************************************************************************)
\* C36: in WaitingSnapshot onIncrement returns None for every incremental
\* and leaves the book, last_seq, expected_seq and the state unchanged
C36_WaitingSnapshotIgnores ==
    [][(ev'.op = "onIncrement" /\ ctrl.state = "WaitingSnapshot") =>
          /\ ev'.action = "None"
          /\ book' = book
          /\ ctrl' = ctrl]_vars

\* an incremental without sequence numbers was offered to a controller with
\* a checksum function while it waited for a snapshot
C36_Witness ==
    /\ ev.op = "onIncrement" /\ ev.from = "WaitingSnapshot"
    /\ ev.last = 0 /\ caps.checksum_fn # "nullptr"
    /\ ev.action = "None" /\ ctrl.state = "WaitingSnapshot"

(***************************************************************************)
(* Properties of the handler's SYNCED state                                *)
(***************************************************************************)
\* C37: a running handler in SYNCED has a controller in Synced
C37_SyncedAgrees ==
    (hnd.running_ /\ hnd.state_ = "SYNCED") => ctrl.state = "Synced"

\* a parsed incremental was taken in SYNCED and the handler stayed there
C37_Witness ==
    /\ hnd.running_ /\ hnd.state_ = "SYNCED" /\ ctrl.state = "Synced"
    /\ ev.from = "SYNCED" /\ ev.isInc /\ ~ev.malformed

(***************************************************************************)
(* Properties of the REST snapshot reply                                   *)
(***************************************************************************)
\* C38: a REST snapshot reply is applied to the controller only while the
\* handler is in WAIT_REST_SNAPSHOT; a reply to a request issued before a
\* restartSync changes nothing
C38_SnapshotOnlyWhenWaiting ==
    ev.applied # "none" => ev.applied = "WAIT_REST_SNAPSHOT"

(***************************************************************************)
(* Properties of the handler's use of its RestClient                       *)
(***************************************************************************)
\* C39: the handler never calls async_get or async_post while a request of
\* its RestClient is in flight, so no call is refused with
\* operation_in_progress
C39_NoRequestRefused == ~ev.busy

(***************************************************************************)
(* Properties of handlers left over from a finished request                *)
(***************************************************************************)
\* the step ran a completion or timer handler of a request other than the
\* one in flight before the step
LeftOverHandler ==
    /\ ev'.op \notin {"init", "request", "completes", "expires"}
    /\ rest.numbered /\ rest.in_flight_ /\ ev'.req # rest.cb_

\* C40: a handler that belongs to a finished request never completes, fails
\* or alters the request in flight
C40_LeftOverHarmless ==
    [][LeftOverHandler =>
          /\ rest'.in_flight_ /\ rest'.cb_ = rest.cb_
          /\ rest'.calls = rest.calls
          /\ rest'.final_ec_ = rest.final_ec_
          /\ rest'.shutting_down_ = rest.shutting_down_
          /\ rest'.sock = rest.sock
          /\ rest'.deadline_ = rest.deadline_]_vars

====
